---- MODULE Spec2Model ----
(***************************************************************************)
(* GitHubService (src/src/main.ts): createOrUpdateFile, deleteFile, the    *)
(* directory lock table and the conflict retry loop, run by concurrent     *)
(* request handlers of one Node.js process against the remote file store.  *)
(*                                                                         *)
(* One step of a task is the synchronous code between two suspension       *)
(* points (await of a remote call or of a timer): the event loop runs it   *)
(* without interleaving.  The remote store answers one request per step.   *)
(***************************************************************************)
EXTENDS Integers, Sequences, FiniteSets, TLC

\* ------------------------------------------------------------------ bounds
NumTasks == 3

\* The request handlers.  All of them call in GuardSpec; in the
\* specifications that also draw transport failures, deletes or both
\* contents, the calls come from Callers and the last task stays idle.
Tasks == 1..NumTasks
Callers == 1..(NumTasks - 1)

\* ------------------------------------------------------- program constants
DefaultRetries == 3
BackoffBaseMs == 1000
StatusOk == 200
StatusUnauthorized == 401
StatusNotFound == 404
StatusConflict == 409
StatusUnprocessable == 422
StatusServerError == 500
StatusNone == 0

\* ------------------------------------------------------------------ inputs
\* A path is the sequence of its '/'-separated segments.
PathData == <<"r1", "data">>
PathMeta == <<"r1", "meta">>
PathOther == <<"r2", "data">>
PathDir == <<"r1">>
PathInfo == <<"r1", "meta", "info">>
PathNotes == <<"r1", "notes">>
PathOtherDir == <<"r2">>
RootPath == <<>>
PathIgnore == <<".gitignore">>
PathKeep == <<"r1", ".gitkeep">>
PathInnerIgnore == <<"r1", ".gitignore">>

Paths ==
  {PathData, PathMeta, PathOther, PathDir, PathInfo, PathNotes,
   PathIgnore, PathKeep, PathInnerIgnore}

\* Ways to spell the path of one file: r1/data, r1//data, r1/./data,
\* r1/meta/../data and r1/data/.
Spellings ==
  {PathData, <<"r1", "", "data">>, <<"r1", ".", "data">>,
   <<"r1", "meta", "..", "data">>, <<"r1", "data", "">>}

\* The segment names in the order a directory listing gives them.
SegmentOrder == <<".gitignore", ".gitkeep", "data", "info", "meta", "notes", "r1", "r2">>
Contents == {"A", "B"}
ExtContents == {"X"}
Msgs == {"m1", "m2"}
Ops == {"write", "delete"}

Absent == <<"absent">>
NoSha == <<"undefined">>
NoPath == <<>>

\* ----------------------------------------------------------- pure helpers
Front(s) == SubSeq(s, 1, Len(s) - 1)

IsProperPrefix(p, q) == Len(p) < Len(q) /\ SubSeq(q, 1, Len(p)) = p

RECURSIVE Pow2(_)
Pow2(n) == IF n <= 0 THEN 1 ELSE 2 * Pow2(n - 1)

RECURSIVE Dirname(_)
\* Mutant: one key for the whole repository.
DirnameRoot(p) == <<".">>

\* path.dirname(filePath): everything before the last segment, "." when
\* the path has a single segment.  Separators at the end of the path are
\* skipped first (an empty segment is what two separators in a row, or a
\* separator at the end, enclose); the text before the last segment is
\* returned as it is spelled, with its "", "." and ".." segments.
Dirname(p) ==
  IF Len(p) <= 1 THEN <<".">>
  ELSE IF p[Len(p)] = "" THEN Dirname(Front(p))
  ELSE Front(p)

\* Buffer.from(content, 'utf-8').toString('base64')
Base64(c) == <<"base64", c>>

\* Mutant: the exponent is the attempt number itself.
BackoffTimeOffByOne(attempt) == BackoffBaseMs * Pow2(attempt)

\* 1000 * Math.pow(2, attempt - 1)
BackoffTime(attempt) == BackoffBaseMs * Pow2(attempt - 1)

\* Mutant: every failure is retried.
ShouldRetryAny(status, attempt, retries) == attempt < retries

\* Mutant: the last attempt is retried too.
ShouldRetryAlways(status, attempt, retries) ==
  status = StatusConflict /\ attempt <= retries

\* error.status === 409 && attempt < retries
ShouldRetry(status, attempt, retries) ==
  status = StatusConflict /\ attempt < retries

\* for (let attempt = 1; attempt <= retries; attempt++)
LoopContinues(attempt, retries) == attempt <= retries

\* Mutant: continue without advancing the counter.
NextAttemptStuck(attempt) == attempt

\* attempt++
NextAttempt(attempt) == attempt + 1

\* Buffer.from(data.content, 'base64').toString('utf-8')
FromBase64(payload) ==
  IF Len(payload) = 2 /\ payload[1] = "base64" THEN payload[2] ELSE "garbage"

\* --------------------------------------------------------------- errors
\* What the remote store (octokit) throws.
RemoteError(status, message) == [status |-> status, message |-> message]

\* What a call throws to its caller.
Thrown(class, status, text, path, message) ==
  [class |-> class, status |-> status, text |-> text, path |-> path,
   message |-> message]

NoError == Thrown("none", StatusNone, "", NoPath, "")

\* throw new InternalServerErrorException(`Error creating/updating file
\* ${filePath}: ${error.message}`) after a 409 on the last attempt
WritePersistentConflict(p, e) ==
  Thrown("InternalServerErrorException", StatusServerError,
         "Error creating/updating file", p, e.message)

\* the same throw for every other failure
WriteOtherError(p, e) ==
  Thrown("InternalServerErrorException", StatusServerError,
         "Error creating/updating file", p, e.message)

\* throw new InternalServerErrorException(`Error deleting file ...`)
DeletePersistentConflict(p, e) ==
  Thrown("InternalServerErrorException", StatusServerError,
         "Error deleting file", p, e.message)

\* throw error: the caught value itself
Rethrown(e) ==
  Thrown(IF e.status = StatusNone THEN "Error" ELSE "RequestError",
         e.status, "", NoPath, e.message)

\* throw new Error(`The file ${filePath} does not have a valid SHA`)
NoValidSha == RemoteError(StatusNone, "does not have a valid SHA")

\* ------------------------------------------------------------------ state
VARIABLES
  directoryLocks,  \* Map<string, boolean>: a function on the keys set so far
  store,           \* remote store: path -> stored payload, or Absent
  call,            \* per task: the arguments of its call
  pc,              \* per task: the suspension point it is at
  attempt,         \* per task: the loop counter
  sha,             \* per task: the local sha of the current attempt
  outcome,         \* per task: how its call ended
  hist,            \* per task: what it has sent and received so far
  result,          \* per task: the value its call returned or accumulates
  walk,            \* per task: the pending entries of traverseDirectory
  caller,          \* per task: the RicesService method awaiting the call
  sent,            \* per task: owner, repo and ref of the request it sent last
  configService,   \* the environment (process.env) as ConfigService reads it
  repoOwner,       \* private repoOwner: string
  repoName,        \* private repoName: string
  defaultBranch,   \* private defaultBranch: string
  octokit,         \* private octokit!: Octokit
  moduleInit,      \* the position and the outcome of onModuleInit
  rices            \* the metadata table behind SupabaseService

vars ==
  <<directoryLocks, store, call, pc, attempt, sha, outcome, hist, result,
    walk, caller, sent, configService, repoOwner, repoName, defaultBranch,
    octokit, moduleInit, rices>>

\* The repository context and what onModuleInit sets.
ctxVars == <<configService, repoOwner, repoName, defaultBranch, octokit, moduleInit>>

\* What only getFileContent, the listings and their callers change.
readVars == <<result, walk, caller>>

NoCall == [op |-> "none", path |-> NoPath, content |-> "", retries |-> 0]
Pending == [kind |-> "pending", error |-> NoError]
Returned == [kind |-> "returned", error |-> NoError]
Raised(err) == [kind |-> "raised", error |-> err]

NoFetch == [attempt |-> 0, kind |-> "none", sha |-> NoSha]
NoReq == [attempt |-> 0, kind |-> "none", sha |-> NoSha]
NoHist ==
  [nFetch |-> 0, nReq |-> 0, nOk |-> 0, waits |-> <<>>, fetched |-> NoFetch,
   req |-> NoReq, lastStatus |-> StatusNone]

\* No value returned (yet): Promise<void>, or a call that has not ended.
NoResult == <<>>

\* No traversal in progress.
NoWalk == [cur |-> NoPath, pending |-> <<>>]

\* The task's service call was not made by a RicesService method.
NoCaller ==
  [op |-> "none", folder |-> NoPath, token |-> "", secret |-> <<"undefined">>,
   files |-> <<>>, phase |-> "none", deleted |-> 0,
   name |-> "", agent |-> "", content |-> ""]

\* No request sent (yet).
NoTarget == [owner |-> "", repo |-> "", ref |-> ""]

\* ------------------------------------------------- the repository context
\* A value of the environment: undefined, or a string.
Undefined == <<"undefined">>
Str(s) == <<"string", s>>

ConfigKeys == {"GITHUB_TOKEN", "GITHUB_REPO_OWNER", "GITHUB_REPO_NAME"}

\* The variables of the environment the application reads.
EnvKeys == ConfigKeys \cup {"MODERATION_SECRET"}

\* No failure of octokit.repos.get caught.
NoRemoteError == RemoteError(StatusOk, "")

\* this.configService.get<string>(key)
ConfigGet(key) == configService[key]

\* !value: undefined and the empty string are falsy
Falsy(v) == v = Undefined \/ v = Str("")

\* value || ''
OrEmpty(v) == IF Falsy(v) THEN "" ELSE v[2]

\* private defaultBranch: string = 'main'
InitialBranch == "main"

\* GitHubService after its constructor has run with the environment cfg.
Constructed(cfg) ==
  /\ configService = cfg
  /\ repoOwner = OrEmpty(cfg["GITHUB_REPO_OWNER"])
  /\ repoName = OrEmpty(cfg["GITHUB_REPO_NAME"])
  /\ defaultBranch = InitialBranch
  /\ octokit = Undefined
  /\ moduleInit = [pc |-> "constructed", outcome |-> Pending, lookups |-> 0,
                   received |-> Undefined, error |-> NoRemoteError]

\* The environment of a deployment and the default branch of its repository.
DeployedConfig ==
  [k \in EnvKeys |->
     IF k = "GITHUB_TOKEN" THEN Str("ghp") ELSE
     IF k = "GITHUB_REPO_OWNER" THEN Str("zen") ELSE
     IF k = "GITHUB_REPO_NAME" THEN Str("rices-store") ELSE Str("s1")]

\* GitHubService when onModuleInit has resolved with the default branch b
\* and the application starts to serve requests.
Serving(cfg, b) ==
  /\ configService = cfg
  /\ repoOwner = OrEmpty(cfg["GITHUB_REPO_OWNER"])
  /\ repoName = OrEmpty(cfg["GITHUB_REPO_NAME"])
  /\ defaultBranch = b
  /\ octokit = [auth |-> cfg["GITHUB_TOKEN"]]
  /\ moduleInit = [pc |-> "done", outcome |-> Returned, lookups |-> 1,
                   received |-> Str(b), error |-> NoRemoteError]

\* throw new Error('GITHUB_TOKEN is not defined')
TokenNotDefined ==
  Thrown("Error", StatusNone, "GITHUB_TOKEN is not defined", NoPath, "")

\* throw new Error('GITHUB_REPO_OWNER or GITHUB_REPO_NAME is not defined')
IdsNotDefined ==
  Thrown("Error", StatusNone, "GITHUB_REPO_OWNER or GITHUB_REPO_NAME is not defined",
         NoPath, "")

\* Mutant: && in place of ||.
IdsMissingBoth(owner, name) == owner = "" /\ name = ""

\* !this.repoOwner || !this.repoName
IdsMissing(owner, name) == owner = "" \/ name = ""

\* onModuleInit ends: it returns, or it throws out.
InitEnds(out) == moduleInit' = [moduleInit EXCEPT !.pc = "done", !.outcome = out]

\* onModuleInit up to its await: the checks of the token and of the
\* identifiers, new Octokit({auth: token}), and octokit.repos.get sent.
OnModuleInit ==
  /\ moduleInit.pc = "constructed"
  /\ LET token == ConfigGet("GITHUB_TOKEN")
     IN IF Falsy(token)
          THEN InitEnds(Raised(TokenNotDefined)) /\ UNCHANGED octokit
          ELSE IF IdsMissing(repoOwner, repoName)
            THEN InitEnds(Raised(IdsNotDefined)) /\ UNCHANGED octokit
            ELSE /\ octokit' = [auth |-> token]
                 /\ moduleInit' = [moduleInit EXCEPT !.pc = "lookup", !.lookups = @ + 1]
  /\ UNCHANGED <<directoryLocks, store, call, pc, attempt, sha, outcome, hist, readVars,
                 sent, configService, repoOwner, repoName, defaultBranch, rices>>

\* octokit.repos.get resolves: this.defaultBranch = repo.default_branch.
ReposGetAnswer(b) ==
  /\ moduleInit.pc = "lookup"
  /\ defaultBranch' = b
  /\ moduleInit' = [moduleInit EXCEPT !.pc = "done", !.outcome = Returned,
                                       !.received = Str(b)]
  /\ UNCHANGED <<directoryLocks, store, call, pc, attempt, sha, outcome, hist, readVars,
                 sent, configService, repoOwner, repoName, octokit, rices>>

\* catch (error) of onModuleInit: log, throw error
LookupFailure(e) == Raised(Rethrown(e))

\* octokit.repos.get rejects: with a 404, another status, or no response.
ReposGetFault(e) ==
  /\ moduleInit.pc = "lookup"
  /\ moduleInit' = [moduleInit EXCEPT !.pc = "done", !.outcome = LookupFailure(e),
                                       !.error = e]
  /\ UNCHANGED <<directoryLocks, store, call, pc, attempt, sha, outcome, hist, readVars,
                 sent, configService, repoOwner, repoName, defaultBranch, octokit, rices>>

\* bootstrap: the application listens once NestFactory.create has
\* resolved, which takes onModuleInit to have returned.
Listening == moduleInit.pc = "done" /\ moduleInit.outcome = Returned

\* ------------------------------------------------------ the metadata table
\* getRiceBySlug finds no row
NoRice == [found |-> FALSE, token |-> "", name |-> "", version |-> "", os |-> ""]

\* A row of the table: the columns token, name, version and os; the slug is
\* the key the row is stored under.
Row(k, n, v, o) == [found |-> TRUE, token |-> k, name |-> n, version |-> v, os |-> o]

\* The record folders rices/<slug>, one per slug.
RemoveFolders == {PathDir, PathOtherDir}

\* The token of the rows stored beforehand.
OwnToken == "k1"

\* The name of the row stored beforehand under a slug: slug is
\* `${generateSlug(name)}-${uuidv4()}`, so the names differ as the slugs do.
StoredName(f) == IF f = PathDir THEN "n1" ELSE "n2"

\* The version and the operating system of the rows stored beforehand.
StoredVersion == "1.0.0"
StoredOs == "linux"

\* A row stored beforehand.
Rice(f) == Row(OwnToken, StoredName(f), StoredVersion, StoredOs)

\* Every record has its row.
AllRices == [f \in RemoveFolders |-> Rice(f)]

\* What every specification starts from besides the store and the tasks:
\* a served application nobody has called yet.
Deployed ==
  /\ Serving(DeployedConfig, InitialBranch)
  /\ sent = [t \in Tasks |-> NoTarget]
  /\ rices = AllRices

\* --------------------------------------------------------- the lock table
\* Mutant: the entry is looked up under a key that is never set.
LockHeldNever(d) == FALSE

\* Mutant: the test of the entry is always true.
LockHeldAlways(d) == TRUE

\* this.directoryLocks.get(directoryPath), used as a condition
LockHeld(d) == d \in DOMAIN directoryLocks /\ directoryLocks[d]

\* this.directoryLocks.set(directoryPath, value)
LockSet(locks, d, v) ==
  [k \in DOMAIN locks \cup {d} |-> IF k = d THEN v ELSE locks[k]]

\* ------------------------------------------------------- the remote store
ShaOf(payload) == <<"sha", payload>>

\* The object a request path addresses: empty and "." segments name
\* nothing, a ".." segment leaves the directory the segments before it lead
\* into.
RECURSIVE Resolve(_)
Resolve(p) ==
  IF p = <<>> THEN <<>>
  ELSE LET q == Resolve(Front(p))
           s == p[Len(p)]
       IN IF s \in {"", "."} THEN q
          ELSE IF s = ".." THEN (IF q = <<>> THEN q ELSE Front(q))
          ELSE Append(q, s)

IsFile(p) == store[p] # Absent

IsDir(p) == \E q \in Paths : IsProperPrefix(p, q) /\ store[q] # Absent

HasFileAncestor(p) == \E q \in Paths : IsProperPrefix(q, p) /\ store[q] # Absent

\* GET object(path, ref)
GetObject(p) ==
  IF IsFile(p) THEN [kind |-> "file", sha |-> ShaOf(store[p])]
  ELSE IF IsDir(p) THEN [kind |-> "dir", sha |-> NoSha]
  ELSE [kind |-> "notfound", sha |-> NoSha]

\* PUT object(path, content, revisionId?): the status it answers
PutStatus(p, token) ==
  IF IsDir(p) \/ HasFileAncestor(p) THEN StatusUnprocessable
  ELSE IF IsFile(p)
    THEN IF token = ShaOf(store[p]) THEN StatusOk ELSE StatusConflict
    ELSE IF token = NoSha THEN StatusOk ELSE StatusConflict

\* DELETE object(path, revisionId): the status it answers
DeleteStatus(p, token) ==
  IF ~IsFile(p) THEN StatusNotFound
  ELSE IF token = ShaOf(store[p]) THEN StatusOk ELSE StatusConflict

\* LIST directory(path, ref): the entries of one level, sorted by name
Entries(d) ==
  LET entry(i) ==
        LET q == Append(d, SegmentOrder[i])
        IN [name |-> SegmentOrder[i], path |-> q,
            type |-> IF q \in Paths /\ IsFile(q) THEN "file"
                     ELSE IF IsDir(q) THEN "dir" ELSE "none"]
      all == [i \in 1..Len(SegmentOrder) |-> entry(i)]
  IN SelectSeq(all, LAMBDA x : x.type # "none")

\* What getContent({path, ref}) resolves to: the object of a file, the
\* array of entries of a directory, or a 404 failure.
GetContent(p) ==
  IF p \in Paths /\ IsFile(p)
    THEN [kind |-> "file", sha |-> ShaOf(store[p]), content |-> store[p], entries |-> <<>>]
  ELSE IF IsDir(p)
    THEN [kind |-> "dir", sha |-> NoSha, content |-> Absent, entries |-> Entries(p)]
  ELSE [kind |-> "notfound", sha |-> NoSha, content |-> Absent, entries |-> <<>>]

TypeOK ==
  /\ DOMAIN directoryLocks \subseteq {Dirname(p) : p \in Paths \cup Spellings}
  /\ \A d \in DOMAIN directoryLocks : directoryLocks[d] \in BOOLEAN
  /\ \A p \in Paths : store[p] = Absent \/ store[p][1] = "base64"
  /\ \A t \in Tasks :
       /\ pc[t] \in {"idle", "lockwait", "locked", "fetch", "mutate", "backoff", "done"}
       /\ attempt[t] \in 0..DefaultRetries
       /\ outcome[t].kind \in {"pending", "returned", "raised"}

Init ==
  /\ directoryLocks = << >>
  /\ store \in [Paths -> {Absent}]
  /\ call = [t \in Tasks |-> NoCall]
  /\ pc = [t \in Tasks |-> "idle"]
  /\ attempt = [t \in Tasks |-> 0]
  /\ sha = [t \in Tasks |-> NoSha]
  /\ outcome = [t \in Tasks |-> Pending]
  /\ hist = [t \in Tasks |-> NoHist]
  /\ result = [t \in Tasks |-> NoResult]
  /\ walk = [t \in Tasks |-> NoWalk]
  /\ caller = [t \in Tasks |-> NoCaller]
  /\ Deployed

\* ------------------------------------------------------------ task steps
\* Mutant: the branch is the literal the field is initialised with.
RequestTargetMain == [owner |-> repoOwner, repo |-> repoName, ref |-> InitialBranch]

\* owner: this.repoOwner, repo: this.repoName, and ref or branch:
\* this.defaultBranch, as every octokit.repos call of the service passes them.
RequestTarget == [owner |-> repoOwner, repo |-> repoName, ref |-> defaultBranch]

\* The suspension points at which a task awaits octokit.repos.getContent,
\* createOrUpdateFileContents or deleteFile.
AwaitsRemote == {"fetch", "mutate", "read", "list", "walk"}

\* The task sends a request to the remote store.
Send(t) == sent' = [sent EXCEPT ![t] = RequestTarget]

Set(t, newPc, newAttempt, newSha, newOutcome, newHist) ==
  /\ pc' = [pc EXCEPT ![t] = newPc]
  /\ attempt' = [attempt EXCEPT ![t] = newAttempt]
  /\ sha' = [sha EXCEPT ![t] = newSha]
  /\ outcome' = [outcome EXCEPT ![t] = newOutcome]
  /\ hist' = [hist EXCEPT ![t] = newHist]
  /\ sent' = IF newPc \in AwaitsRemote THEN [sent EXCEPT ![t] = RequestTarget] ELSE sent

\* lockDirectory up to its first suspension: the test of the entry and the
\* set are one synchronous run; a held entry suspends on delay(100).
LockDirectory(t, d) ==
  IF LockHeld(d)
    THEN /\ pc' = [pc EXCEPT ![t] = "lockwait"]
         /\ UNCHANGED directoryLocks
    ELSE /\ pc' = [pc EXCEPT ![t] = "locked"]
         /\ directoryLocks' = LockSet(directoryLocks, d, TRUE)

\* Mutant: the entry is removed from the table on release.
UnlockDirectoryDelete(d) ==
  [k \in DOMAIN directoryLocks \ {d} |-> directoryLocks[k]]

\* unlockDirectory(directoryPath)
UnlockDirectory(d) == LockSet(directoryLocks, d, FALSE)

\* Mutant: unlockDirectory at the end of the try block instead of in finally.
FinishLeak(t, out, h) ==
  /\ Set(t, "done", attempt[t], sha[t], out, h)
  /\ directoryLocks' =
       IF call[t].op = "write" /\ out.kind = "returned"
         THEN UnlockDirectory(Dirname(call[t].path))
         ELSE directoryLocks

\* The end of a call: createOrUpdateFile runs its finally block, deleteFile
\* has none.
Finish(t, out, h) ==
  /\ Set(t, "done", attempt[t], sha[t], out, h)
  /\ directoryLocks' =
       IF call[t].op = "write"
         THEN UnlockDirectory(Dirname(call[t].path))
         ELSE directoryLocks

\* Mutant: sha declared before the loop, so an iteration starts with the
\* value the previous one left.
FreshShaStale(old) == old

\* let sha: string | undefined, declared inside the loop body
FreshSha(old) == NoSha

\* The loop head with counter k: a new iteration declares a fresh sha and
\* sends the revision fetch, or the loop ends and the call returns.
Iterate(t, k, h) ==
  IF LoopContinues(k, call[t].retries)
    THEN /\ Set(t, "fetch", k, FreshSha(sha[t]), outcome[t], h)
         /\ UNCHANGED directoryLocks
    ELSE Finish(t, Returned, h)

\* Mutant: the lock is taken inside the loop body and given back before
\* the backoff wait.
HandleWriteErrorUnlocked(t, e, h) ==
  IF ShouldRetry(e.status, attempt[t], call[t].retries)
    THEN /\ Set(t, "backoff", attempt[t], sha[t], outcome[t],
                [h EXCEPT !.waits = Append(@, BackoffTime(attempt[t]))])
         /\ directoryLocks' = UnlockDirectory(Dirname(call[t].path))
    ELSE IF e.status = StatusConflict
      THEN Finish(t, Raised(WritePersistentConflict(call[t].path, e)), h)
      ELSE Finish(t, Raised(WriteOtherError(call[t].path, e)), h)

\* catch (error) of createOrUpdateFile
HandleWriteError(t, e, h) ==
  IF ShouldRetry(e.status, attempt[t], call[t].retries)
    THEN /\ Set(t, "backoff", attempt[t], sha[t], outcome[t],
                [h EXCEPT !.waits = Append(@, BackoffTime(attempt[t]))])
         /\ UNCHANGED directoryLocks
    ELSE IF e.status = StatusConflict
      THEN Finish(t, Raised(WritePersistentConflict(call[t].path, e)), h)
      ELSE Finish(t, Raised(WriteOtherError(call[t].path, e)), h)

\* Mutant: a 404 is logged and thrown like every other failure.
HandleDeleteErrorStrict(t, e, h) ==
  IF ShouldRetry(e.status, attempt[t], call[t].retries)
    THEN /\ Set(t, "backoff", attempt[t], sha[t], outcome[t],
                [h EXCEPT !.waits = Append(@, BackoffTime(attempt[t]))])
         /\ UNCHANGED directoryLocks
    ELSE IF e.status = StatusConflict
      THEN Finish(t, Raised(DeletePersistentConflict(call[t].path, e)), h)
      ELSE Finish(t, Raised(Rethrown(e)), h)

\* Mutant: the first Conflict is already treated as persistent.
HandleDeleteErrorNoRetry(t, e, h) ==
  IF e.status = StatusConflict
    THEN Finish(t, Raised(DeletePersistentConflict(call[t].path, e)), h)
    ELSE IF e.status = StatusNotFound
      THEN Finish(t, Returned, h)
      ELSE Finish(t, Raised(Rethrown(e)), h)

\* catch (error) of deleteFile
HandleDeleteError(t, e, h) ==
  IF ShouldRetry(e.status, attempt[t], call[t].retries)
    THEN /\ Set(t, "backoff", attempt[t], sha[t], outcome[t],
                [h EXCEPT !.waits = Append(@, BackoffTime(attempt[t]))])
         /\ UNCHANGED directoryLocks
    ELSE IF e.status = StatusConflict
      THEN Finish(t, Raised(DeletePersistentConflict(call[t].path, e)), h)
      ELSE IF e.status = StatusNotFound
        THEN Finish(t, Returned, h)
        ELSE Finish(t, Raised(Rethrown(e)), h)

HandleError(t, e, h) ==
  IF call[t].op = "write" THEN HandleWriteError(t, e, h)
  ELSE HandleDeleteError(t, e, h)

\* Mutant: the sha of the fetched file is not kept.
ShaAfterFetchDropped(cur, g) == cur

\* if ('sha' in existingFile) sha = existingFile.sha: a directory listing
\* and NotFound leave the local sha as it is.
ShaAfterFetch(cur, g) == IF g.kind = "file" THEN g.sha ELSE cur

\* The mutation request is sent with the sha of this attempt.
SendMutation(t, token, h) ==
  /\ Set(t, "mutate", attempt[t], token, outcome[t],
         [h EXCEPT !.nReq = @ + 1,
                   !.req = [attempt |-> attempt[t],
                            kind |-> IF call[t].op = "write" THEN "PUT" ELSE "DELETE",
                            sha |-> token]])
  /\ UNCHANGED directoryLocks

\* ---------------------------------------------------------------- actions
\* A request handler calls createOrUpdateFile or deleteFile.
Call(t, op, p, c, r) ==
  /\ pc[t] = "idle"
  /\ call' = [call EXCEPT ![t] = [op |-> op, path |-> p, content |-> c, retries |-> r]]
  /\ IF op = "write"
       THEN /\ LockDirectory(t, Dirname(p))
            /\ UNCHANGED <<attempt, sha, outcome, hist, sent>>
       ELSE /\ IF LoopContinues(1, r)
                 THEN Set(t, "fetch", 1, FreshSha(sha[t]), outcome[t], hist[t])
                 ELSE Set(t, "done", 0, NoSha, Returned, hist[t])
            /\ UNCHANGED directoryLocks
  /\ UNCHANGED <<store, readVars, ctxVars, rices>>

\* delay(100) elapsed: lockDirectory tests the entry again.  Finding it held
\* it sleeps again, which changes nothing; finding it free it sets it.
LockPoll(t) ==
  /\ pc[t] = "lockwait"
  /\ ~LockHeld(Dirname(call[t].path))
  /\ LockDirectory(t, Dirname(call[t].path))
  /\ UNCHANGED <<store, call, attempt, sha, outcome, hist, sent, readVars, ctxVars, rices>>

\* await lockDirectory resumes: the try block and the loop start.
EnterLoop(t) ==
  /\ pc[t] = "locked"
  /\ Iterate(t, 1, hist[t])
  /\ UNCHANGED <<store, call, readVars, ctxVars, rices>>

\* The remote store answers the revision fetch from its state.
GetContentAnswer(t) ==
  /\ pc[t] = "fetch"
  /\ LET g == GetObject(Resolve(call[t].path))
         h == [hist[t] EXCEPT !.nFetch = @ + 1,
                              !.fetched = [attempt |-> attempt[t], kind |-> g.kind, sha |-> g.sha],
                              !.lastStatus = IF g.kind = "notfound" THEN StatusNotFound ELSE StatusOk]
     IN IF call[t].op = "write"
          THEN SendMutation(t, ShaAfterFetch(sha[t], g), h)
          ELSE IF g.kind = "file" THEN SendMutation(t, g.sha, h)
          ELSE IF g.kind = "dir" THEN HandleDeleteError(t, NoValidSha, h)
          ELSE HandleDeleteError(t, RemoteError(StatusNotFound, "Not Found"), h)
  /\ UNCHANGED <<store, call, readVars, ctxVars, rices>>

\* The revision fetch fails with something else than NotFound.
GetContentFault(t, e) ==
  /\ pc[t] = "fetch"
  /\ HandleError(t, e, [hist[t] EXCEPT !.nFetch = @ + 1,
                                       !.fetched = [attempt |-> attempt[t], kind |-> "error", sha |-> NoSha],
                                       !.lastStatus = e.status])
  /\ UNCHANGED <<store, call, readVars, ctxVars, rices>>

\* The remote store answers the PUT or the DELETE from its state; a failure
\* answer carries the message m.
MutationAnswer(t, m) ==
  /\ pc[t] = "mutate"
  /\ LET p == Resolve(call[t].path)
         st == IF call[t].op = "write" THEN PutStatus(p, sha[t]) ELSE DeleteStatus(p, sha[t])
         h == [hist[t] EXCEPT !.lastStatus = st]
     IN IF st = StatusOk
          THEN /\ store' = [store EXCEPT ![p] =
                              IF call[t].op = "write" THEN Base64(call[t].content) ELSE Absent]
               /\ Finish(t, Returned, [h EXCEPT !.nOk = @ + 1])
          ELSE /\ UNCHANGED store
               /\ HandleError(t, RemoteError(st, m), h)
  /\ UNCHANGED <<call, readVars, ctxVars, rices>>

\* The PUT or the DELETE fails in transport: the store is unchanged.
MutationFault(t, e) ==
  /\ pc[t] = "mutate"
  /\ HandleError(t, e, [hist[t] EXCEPT !.lastStatus = e.status])
  /\ UNCHANGED <<store, call, readVars, ctxVars, rices>>

\* delay(backoffTime) elapsed: continue, attempt++.
BackoffElapsed(t) ==
  /\ pc[t] = "backoff"
  /\ Iterate(t, NextAttempt(attempt[t]), hist[t])
  /\ UNCHANGED <<store, call, readVars, ctxVars, rices>>

\* Another writer of the remote store (another process) replaces a file.
ExtWrite(p, c) ==
  /\ ~IsDir(p) /\ ~HasFileAncestor(p)
  /\ store[p] # Base64(c)
  /\ store' = [store EXCEPT ![p] = Base64(c)]
  /\ UNCHANGED <<directoryLocks, call, pc, attempt, sha, outcome, hist, sent, readVars, ctxVars, rices>>

\* Another writer of the remote store removes a file.
ExtDelete(p) ==
  /\ store[p] # Absent
  /\ store' = [store EXCEPT ![p] = Absent]
  /\ UNCHANGED <<directoryLocks, call, pc, attempt, sha, outcome, hist, sent, readVars, ctxVars, rices>>

Faults == {RemoteError(s, m) : s \in {StatusNone, StatusServerError}, m \in Msgs}

WritePaths == {PathData, PathMeta, PathDir}
DeletePaths == {PathData, PathDir}
ExtPaths == {PathData}

\* The steps of task t, the remote store drawing its failures from F and
\* the messages of its failure answers from M.
TaskStep(t, F, M) ==
  \/ LockPoll(t)
  \/ EnterLoop(t)
  \/ GetContentAnswer(t)
  \/ \E e \in F : GetContentFault(t, e)
  \/ \E m \in M : MutationAnswer(t, m)
  \/ \E e \in F : MutationFault(t, e)
  \/ BackoffElapsed(t)

External ==
  \/ \E p \in ExtPaths, c \in ExtContents : ExtWrite(p, c)
  \/ \E p \in ExtPaths : ExtDelete(p)

\* Every input: both contents, every failure the remote store can answer
\* with and every message.
FullNext ==
  \/ \E t \in Callers, p \in WritePaths, c \in Contents : Call(t, "write", p, c, DefaultRetries)
  \/ \E t \in Callers, p \in DeletePaths : Call(t, "delete", p, "", DefaultRetries)
  \/ \E t \in Tasks : TaskStep(t, Faults, Msgs)
  \/ External

FullSpec == Init /\ [][FullNext]_vars

\* The same calls with one content, one transport failure and one message:
\* what the control flow of a call depends on.
CoreContents == {"A"}
CoreMsgs == {"m1"}
CoreFaults == {RemoteError(StatusServerError, "m1")}

CoreStep(t) == TaskStep(t, CoreFaults, CoreMsgs)

Next ==
  \/ \E t \in Callers, p \in WritePaths, c \in CoreContents : Call(t, "write", p, c, DefaultRetries)
  \/ \E t \in Callers, p \in DeletePaths : Call(t, "delete", p, "", DefaultRetries)
  \/ \E t \in Tasks : CoreStep(t)
  \/ External

Spec == Init /\ [][Next]_vars

\* Concurrent writes of this process alone: no other writer of the remote
\* store, every request answered from the store's state, paths that name
\* files.  The files may exist beforehand.
QuietPaths == {PathData, PathMeta}

InitQuiet ==
  /\ directoryLocks = << >>
  /\ store \in {s \in [Paths -> {Absent} \cup {Base64(c) : c \in ExtContents}] :
                  \A p \in Paths \ QuietPaths : s[p] = Absent}
  /\ call = [t \in Tasks |-> NoCall]
  /\ pc = [t \in Tasks |-> "idle"]
  /\ attempt = [t \in Tasks |-> 0]
  /\ sha = [t \in Tasks |-> NoSha]
  /\ outcome = [t \in Tasks |-> Pending]
  /\ hist = [t \in Tasks |-> NoHist]
  /\ result = [t \in Tasks |-> NoResult]
  /\ walk = [t \in Tasks |-> NoWalk]
  /\ caller = [t \in Tasks |-> NoCaller]
  /\ Deployed

NextQuiet ==
  \/ \E t \in Callers, p \in QuietPaths, c \in Contents : Call(t, "write", p, c, DefaultRetries)
  \/ \E t \in Tasks : LockPoll(t)
  \/ \E t \in Tasks : EnterLoop(t)
  \/ \E t \in Tasks : GetContentAnswer(t)
  \/ \E t \in Tasks, m \in CoreMsgs : MutationAnswer(t, m)

QuietSpec == InitQuiet /\ [][NextQuiet]_vars

\* The guard under contention: one caller more than in the other
\* specifications, all writing files of two directories, with another writer
\* of the remote store causing conflicts and no transport failure.
GuardPaths == {PathData, PathMeta, PathOther}

GuardNext ==
  \/ \E t \in Tasks, p \in GuardPaths, c \in CoreContents : Call(t, "write", p, c, DefaultRetries)
  \/ \E t \in Tasks : LockPoll(t)
  \/ \E t \in Tasks : EnterLoop(t)
  \/ \E t \in Tasks : GetContentAnswer(t)
  \/ \E t \in Tasks, m \in CoreMsgs : MutationAnswer(t, m)
  \/ \E t \in Tasks : BackoffElapsed(t)
  \/ External

GuardSpec == Init /\ [][GuardNext]_vars

\* The event loop runs every task whose timer or remote answer is due, and
\* the remote store answers every request: each task that can take a step
\* eventually takes one.  Calls are issued at the callers' discretion.
Fairness == \A t \in Tasks : WF_vars(CoreStep(t))

\* The createOrUpdateFile calls alone, on the files of one directory, with
\* another writer of the remote store causing the conflicts.
LivePaths == {PathData, PathMeta}

LiveNext ==
  \/ \E t \in Callers, p \in LivePaths, c \in CoreContents : Call(t, "write", p, c, DefaultRetries)
  \/ \E t \in Tasks : CoreStep(t)
  \/ External

LiveSpec == Init /\ [][LiveNext]_vars /\ Fairness

\* Calls with every kind of retries argument on one file; the remote store
\* fails fetches with a Conflict or a server error, and a PUT or DELETE
\* with a server error or NotFound.
RetryValues == {-1, 0, DefaultRetries}
RetryPaths == {PathData}

FetchFaults == {RemoteError(StatusConflict, "m1"), RemoteError(StatusServerError, "m1")}

MutationFaults == {RemoteError(StatusServerError, "m1"), RemoteError(StatusNotFound, "m1")}

RetryNext ==
  \/ \E t \in Callers, p \in RetryPaths, r \in RetryValues : Call(t, "write", p, "A", r)
  \/ \E t \in Callers, p \in RetryPaths, r \in RetryValues : Call(t, "delete", p, "", r)
  \/ \E t \in Tasks : LockPoll(t)
  \/ \E t \in Tasks : EnterLoop(t)
  \/ \E t \in Tasks : GetContentAnswer(t)
  \/ \E t \in Tasks, e \in FetchFaults : GetContentFault(t, e)
  \/ \E t \in Tasks, m \in CoreMsgs : MutationAnswer(t, m)
  \/ \E t \in Tasks, e \in MutationFaults : MutationFault(t, e)
  \/ \E t \in Tasks : BackoffElapsed(t)

RetrySpec == Init /\ [][RetryNext]_vars

\* The remote store answers a DELETE whose object is gone and whose
\* revision is therefore stale with Conflict instead of NotFound: both
\* descriptions of the request apply.
StaleDeleteConflict(t, m) ==
  /\ pc[t] = "mutate" /\ call[t].op = "delete"
  /\ ~IsFile(Resolve(call[t].path))
  /\ HandleDeleteError(t, RemoteError(StatusConflict, m),
                       [hist[t] EXCEPT !.lastStatus = StatusConflict])
  /\ UNCHANGED <<store, call, readVars, ctxVars, rices>>

\* Writes of one file whose path the callers spell in different ways.
SpellContents == {"A"}

SpellNext ==
  \/ \E t \in Tasks, p \in Spellings, c \in SpellContents :
       Call(t, "write", p, c, DefaultRetries)
  \/ \E t \in Tasks : LockPoll(t)
  \/ \E t \in Tasks : EnterLoop(t)
  \/ \E t \in Tasks : GetContentAnswer(t)
  \/ \E t \in Tasks, m \in CoreMsgs : MutationAnswer(t, m)
  \/ \E t \in Tasks : BackoffElapsed(t)

SpellSpec == InitQuiet /\ [][SpellNext]_vars

\* deleteFile calls racing on one stored file, with no writer of it.
RacePaths == {PathData}

InitRace ==
  /\ directoryLocks = << >>
  /\ store = [p \in Paths |-> IF p \in RacePaths THEN Base64("X") ELSE Absent]
  /\ call = [t \in Tasks |-> NoCall]
  /\ pc = [t \in Tasks |-> "idle"]
  /\ attempt = [t \in Tasks |-> 0]
  /\ sha = [t \in Tasks |-> NoSha]
  /\ outcome = [t \in Tasks |-> Pending]
  /\ hist = [t \in Tasks |-> NoHist]
  /\ result = [t \in Tasks |-> NoResult]
  /\ walk = [t \in Tasks |-> NoWalk]
  /\ caller = [t \in Tasks |-> NoCaller]
  /\ Deployed

RaceNext ==
  \/ \E t \in Tasks, p \in RacePaths : Call(t, "delete", p, "", DefaultRetries)
  \/ \E t \in Tasks : GetContentAnswer(t)
  \/ \E t \in Tasks, m \in CoreMsgs : MutationAnswer(t, m)
  \/ \E t \in Tasks, m \in CoreMsgs : StaleDeleteConflict(t, m)
  \/ \E t \in Tasks : BackoffElapsed(t)

RaceSpec == InitRace /\ [][RaceNext]_vars

\* ------------------------------------------------ reads and listings
\* null
NullValue == <<"null">>

\* a string a call returns
Text(c) == <<"text", c>>

\* data.content used as a condition: the empty string is falsy
Truthy(payload) == payload # Base64("")

\* Buffer.from(data.content, 'base64').toString('utf-8')
Decoded(g) == Text(FromBase64(g.content))

\* getFileContent after getContent has resolved
FileContentValue(g) ==
  IF g.kind = "file" /\ Truthy(g.content) THEN Decoded(g) ELSE NullValue

\* Mutant: a 404 is logged and thrown like every other failure.
AbsentIsNullNever(e) == FALSE

\* isOctokitResponseError(error) && error.status === 404 in getFileContent
AbsentIsNull(e) == e.status = StatusNotFound

\* Mutant: the map starts at the second entry.
NamesOfTail(entries) == [i \in 1..(Len(entries) - 1) |-> entries[i + 1].name]

\* data.map((file) => file.name)
NamesOf(entries) == [i \in 1..Len(entries) |-> entries[i].name]

\* listFilesInDirectory after getContent has resolved
DirectoryNames(g) == IF g.kind = "dir" THEN NamesOf(g.entries) ELSE <<>>

\* What a 404 of getContent is caught as.
NotFoundError == RemoteError(StatusNotFound, "Not Found")

\* The revision fetch of a read or a listing as the history records it.
Fetched(t, g) ==
  [hist[t] EXCEPT !.nFetch = @ + 1,
                  !.fetched = [attempt |-> attempt[t], kind |-> g.kind, sha |-> g.sha],
                  !.lastStatus = IF g.kind = "notfound" THEN StatusNotFound ELSE StatusOk]

FetchFailed(t, e) ==
  [hist[t] EXCEPT !.nFetch = @ + 1,
                  !.fetched = [attempt |-> attempt[t], kind |-> "error", sha |-> NoSha],
                  !.lastStatus = e.status]

\* A request handler calls getFileContent(filePath).
CallRead(t, p) ==
  /\ pc[t] = "idle"
  /\ call' = [call EXCEPT ![t] = [op |-> "read", path |-> p, content |-> "", retries |-> 0]]
  /\ pc' = [pc EXCEPT ![t] = "read"]
  /\ Send(t)
  /\ UNCHANGED <<directoryLocks, store, attempt, sha, outcome, hist, readVars, ctxVars, rices>>

\* getContent answers getFileContent from the state of the store.
ReadAnswer(t) ==
  /\ pc[t] = "read"
  /\ LET g == GetContent(call[t].path)
     IN IF g.kind # "notfound"
          THEN /\ Finish(t, Returned, Fetched(t, g))
               /\ result' = [result EXCEPT ![t] = FileContentValue(g)]
          ELSE IF AbsentIsNull(NotFoundError)
            THEN /\ Finish(t, Returned, Fetched(t, g))
                 /\ result' = [result EXCEPT ![t] = NullValue]
            ELSE /\ Finish(t, Raised(Rethrown(NotFoundError)), Fetched(t, g))
                 /\ UNCHANGED result
  /\ UNCHANGED <<store, call, walk, caller, ctxVars, rices>>

\* getContent fails with something else than NotFound: throw error.
ReadFault(t, e) ==
  /\ pc[t] = "read"
  /\ Finish(t, Raised(Rethrown(e)), FetchFailed(t, e))
  /\ UNCHANGED <<store, call, readVars, ctxVars, rices>>

\* A request handler calls listFilesInDirectory(directoryPath).
CallList(t, p) ==
  /\ pc[t] = "idle"
  /\ call' = [call EXCEPT ![t] = [op |-> "list", path |-> p, content |-> "", retries |-> 0]]
  /\ pc' = [pc EXCEPT ![t] = "list"]
  /\ Send(t)
  /\ UNCHANGED <<directoryLocks, store, attempt, sha, outcome, hist, readVars, ctxVars, rices>>

\* getContent answers listFilesInDirectory from the state of the store; a
\* 404 is caught and gives the empty array.
ListAnswer(t) ==
  /\ pc[t] = "list"
  /\ LET g == GetContent(call[t].path)
     IN /\ Finish(t, Returned, Fetched(t, g))
        /\ result' = [result EXCEPT ![t] = DirectoryNames(g)]
  /\ UNCHANGED <<store, call, walk, caller, ctxVars, rices>>

\* getContent fails with something else than NotFound: throw error.
ListFault(t, e) ==
  /\ pc[t] = "list"
  /\ Finish(t, Raised(Rethrown(e)), FetchFailed(t, e))
  /\ UNCHANGED <<store, call, readVars, ctxVars, rices>>

\* The store as a tree: a record directory with a file directly under it
\* and a file in a sub-directory, and a second record directory.  Any of
\* the files may exist beforehand.
TreePaths == {PathData, PathInfo, PathNotes, PathOther}

InitTree ==
  /\ directoryLocks = << >>
  /\ store \in {s \in [Paths -> {Absent} \cup {Base64(c) : c \in ExtContents}] :
                  \A p \in Paths \ TreePaths : s[p] = Absent}
  /\ call = [t \in Tasks |-> NoCall]
  /\ pc = [t \in Tasks |-> "idle"]
  /\ attempt = [t \in Tasks |-> 0]
  /\ sha = [t \in Tasks |-> NoSha]
  /\ outcome = [t \in Tasks |-> Pending]
  /\ hist = [t \in Tasks |-> NoHist]
  /\ result = [t \in Tasks |-> NoResult]
  /\ walk = [t \in Tasks |-> NoWalk]
  /\ caller = [t \in Tasks |-> NoCaller]
  /\ Deployed

\* Reads and single-level listings next to a write and a delete of the file
\* they read, every mutation answered from the state of the store.  A
\* stored file holds a text or the empty string.
StoredContents == {"X", ""}

InitRead ==
  /\ directoryLocks = << >>
  /\ store \in {s \in [Paths -> {Absent} \cup {Base64(c) : c \in StoredContents}] :
                  /\ \A p \in Paths \ TreePaths : s[p] = Absent
                  /\ s[PathOther] = Absent /\ s[PathNotes] = Absent
                  /\ s[PathInfo] # Base64("")}
  /\ call = [t \in Tasks |-> NoCall]
  /\ pc = [t \in Tasks |-> "idle"]
  /\ attempt = [t \in Tasks |-> 0]
  /\ sha = [t \in Tasks |-> NoSha]
  /\ outcome = [t \in Tasks |-> Pending]
  /\ hist = [t \in Tasks |-> NoHist]
  /\ result = [t \in Tasks |-> NoResult]
  /\ walk = [t \in Tasks |-> NoWalk]
  /\ caller = [t \in Tasks |-> NoCaller]
  /\ Deployed

ReadPaths == {PathData, PathMeta}
ListPaths == {PathDir, PathData}
MutatedPaths == {PathData}
ReadContents == {"A", ""}

ReadNext ==
  \/ \E t \in Callers, p \in MutatedPaths, c \in ReadContents : Call(t, "write", p, c, DefaultRetries)
  \/ \E t \in Callers, p \in MutatedPaths : Call(t, "delete", p, "", DefaultRetries)
  \/ \E t \in Callers, p \in ReadPaths : CallRead(t, p)
  \/ \E t \in Callers, p \in ListPaths : CallList(t, p)
  \/ \E t \in Tasks : LockPoll(t)
  \/ \E t \in Tasks : EnterLoop(t)
  \/ \E t \in Tasks : GetContentAnswer(t)
  \/ \E t \in Tasks, m \in CoreMsgs : MutationAnswer(t, m)
  \/ \E t \in Tasks : BackoffElapsed(t)
  \/ \E t \in Tasks : ReadAnswer(t)
  \/ \E t \in Tasks, e \in CoreFaults : ReadFault(t, e)
  \/ \E t \in Tasks : ListAnswer(t)
  \/ \E t \in Tasks, e \in CoreFaults : ListFault(t, e)

ReadSpec == InitRead /\ [][ReadNext]_vars

\* deleteFile calls on one file that other writers of the remote store
\* keep replacing and removing.
DeleteExtContents == {"X", "Y"}
DeletedPaths == {PathData}

DeleteNext ==
  \/ \E t \in Callers, p \in DeletedPaths : Call(t, "delete", p, "", DefaultRetries)
  \/ \E t \in Tasks : GetContentAnswer(t)
  \/ \E t \in Tasks, m \in CoreMsgs : MutationAnswer(t, m)
  \/ \E t \in Tasks : BackoffElapsed(t)
  \/ \E p \in DeletedPaths, c \in DeleteExtContents : ExtWrite(p, c)
  \/ \E p \in DeletedPaths : ExtDelete(p)

DeleteSpec == Init /\ [][DeleteNext]_vars

\* ------------------------------------------------- recursive listing
\* throw new InternalServerErrorException(`Error listing files in
\* ${currentPath}: ${error.message}`)
WalkError(p, e) ==
  Thrown("InternalServerErrorException", StatusServerError,
         "Error listing files in", p, e.message)

\* Mutant: the type of an entry is not looked at.
EntryIsAnything(entry) == TRUE

\* file.type === 'file'
EntryIsFile(entry) == entry.type = "file"

\* file.type === 'dir'
EntryIsDir(entry) == entry.type = "dir"

\* Mutant: a 404 is logged and thrown like every other failure.
WalkSwallowsNothing(e) == FALSE

\* Mutant: every failure of getContent is logged and the level returns.
WalkSwallowsAll(e) == TRUE

\* isOctokitResponseError(error) && error.status === 404 in
\* traverseDirectory: warn and return
WalkSwallows(e) == e.status = StatusNotFound

\* The for loops of the pending levels of traverseDirectory, run until the
\* next getContent is awaited or the outermost level returns.  pending
\* holds the entries still to be visited, those of the innermost level
\* first: a file is pushed on the accumulator, a directory is descended
\* into, a level whose entries are used up returns to the one above.
Descends(entry) == ~EntryIsFile(entry) /\ EntryIsDir(entry)

Resume(acc, pending) ==
  LET n == Len(pending)
      k == IF \E i \in 1..n : Descends(pending[i])
             THEN CHOOSE i \in 1..n :
                    Descends(pending[i]) /\ \A j \in 1..(i - 1) : ~Descends(pending[j])
             ELSE n + 1
      files == SelectSeq(SubSeq(pending, 1, k - 1), EntryIsFile)
  IN [acc |-> acc \o [i \in 1..Len(files) |-> files[i].path],
      pending |-> SubSeq(pending, k + 1, n),
      cur |-> IF k <= n THEN pending[k].path ELSE NoPath,
      done |-> k > n]

\* The traversal of t goes on from r: the next getContent is sent, or
\* listAllFiles returns the accumulator.
Proceed(t, r, h) ==
  /\ result' = [result EXCEPT ![t] = r.acc]
  /\ walk' = [walk EXCEPT ![t] = [cur |-> r.cur, pending |-> r.pending]]
  /\ IF r.done
       THEN Finish(t, Returned, h)
       ELSE /\ Set(t, "walk", attempt[t], sha[t], outcome[t], h)
            /\ UNCHANGED directoryLocks

\* listAllFiles is called: traverseDirectory(this, '', files).
CallListAll(t) ==
  /\ pc[t] = "idle"
  /\ call' = [call EXCEPT ![t] = [op |-> "listAll", path |-> RootPath, content |-> "", retries |-> 0]]
  /\ pc' = [pc EXCEPT ![t] = "walk"]
  /\ Send(t)
  /\ result' = [result EXCEPT ![t] = <<>>]
  /\ walk' = [walk EXCEPT ![t] = [cur |-> RootPath, pending |-> <<>>]]
  /\ UNCHANGED <<directoryLocks, store, attempt, sha, outcome, hist, caller, ctxVars, rices>>

\* getContent answers traverseDirectory for the current path from the
\* state of the store: an array opens a new level, anything else and a
\* swallowed 404 return to the level above.
WalkAnswer(t) ==
  /\ pc[t] = "walk"
  /\ \E g \in {GetContent(walk[t].cur)} :
       \E h \in {Fetched(t, g)} :
         IF g.kind = "dir"
           THEN \E r \in {Resume(result[t], g.entries \o walk[t].pending)} :
                  Proceed(t, r, h)
           ELSE IF g.kind = "file" \/ WalkSwallows(NotFoundError)
             THEN \E r \in {Resume(result[t], walk[t].pending)} : Proceed(t, r, h)
             ELSE /\ Finish(t, Raised(WalkError(walk[t].cur, NotFoundError)), h)
                  /\ UNCHANGED <<result, walk>>
  /\ UNCHANGED <<store, call, caller, ctxVars, rices>>

\* getContent fails with something else than NotFound: the exception
\* leaves every pending level.
WalkFault(t, e) ==
  /\ pc[t] = "walk"
  /\ IF WalkSwallows(e)
       THEN \E r \in {Resume(result[t], walk[t].pending)} : Proceed(t, r, FetchFailed(t, e))
       ELSE /\ Finish(t, Raised(WalkError(walk[t].cur, e)), FetchFailed(t, e))
            /\ UNCHANGED <<result, walk>>
  /\ UNCHANGED <<store, call, caller, ctxVars, rices>>

\* The recursive listing of a tree nobody changes: every getContent is
\* answered, and the event loop resumes each traversal that was answered.
WalkNext ==
  \/ \E t \in Callers : CallListAll(t)
  \/ \E t \in Tasks : WalkAnswer(t)

WalkSpec ==
  InitTree /\ [][WalkNext]_vars /\ \A t \in Tasks : WF_vars(WalkAnswer(t))

\* The recursive listing while other writers of the remote store remove
\* files, and whole directories with them.
TreeNext ==
  \/ \E t \in Callers : CallListAll(t)
  \/ \E t \in Tasks : WalkAnswer(t)
  \/ \E t \in Tasks, e \in CoreFaults : WalkFault(t, e)
  \/ \E p \in TreePaths : ExtDelete(p)

TreeSpec == InitTree /\ [][TreeNext]_vars

\* ---------------------------------------------------- clearRepository
\* throw new InternalServerErrorException(`Error cleaning the repository:
\* ${error.message}`)
ClearError(err) ==
  Thrown("InternalServerErrorException", StatusServerError,
         "Error cleaning the repository", NoPath, err.message)

\* The number of files the method has deleted, the call that just ended
\* included: a deleteFile whose DELETE was answered with success.
DeletedSoFar(t) ==
  caller[t].deleted + (IF call[t].op = "delete" THEN hist[t].nOk ELSE 0)

\* Mutant: the for loop skips nothing.
EssentialNone(p) == FALSE

\* file.path === '.gitignore' || path.basename(file.path) === '.gitkeep'
Essential(p) == p = <<".gitignore">> \/ (p # <<>> /\ p[Len(p)] = ".gitkeep")

\* The files the for loop still has to delete: those it skips are dropped.
NextToClear(files) == SelectSeq(files, LAMBDA p : ~Essential(p))

\* clearRepository is called: listAllFiles() is awaited.
CallClear(t) ==
  /\ pc[t] = "idle"
  /\ caller' = [caller EXCEPT ![t] =
                  [NoCaller EXCEPT !.op = "clear", !.folder = RootPath, !.phase = "listAll"]]
  /\ call' = [call EXCEPT ![t] = [op |-> "listAll", path |-> RootPath, content |-> "", retries |-> 0]]
  /\ pc' = [pc EXCEPT ![t] = "walk"]
  /\ Send(t)
  /\ result' = [result EXCEPT ![t] = <<>>]
  /\ walk' = [walk EXCEPT ![t] = [cur |-> RootPath, pending |-> <<>>]]
  /\ UNCHANGED <<directoryLocks, store, attempt, sha, outcome, hist, ctxVars, rices>>

\* The awaited call of clearRepository has ended.  An exception is caught
\* and thrown again as an InternalServerErrorException; else the for loop
\* calls deleteFile for the next path of the listing, and after the last
\* one clearRepository returns.
ClearResume(t) ==
  /\ caller[t].op = "clear" /\ caller[t].phase \in {"listAll", "files"}
  /\ pc[t] = "done"
  /\ IF outcome[t].kind = "raised"
       THEN /\ caller' = [caller EXCEPT ![t].phase = "raised", ![t].deleted = DeletedSoFar(t)]
            /\ outcome' = [outcome EXCEPT ![t] = Raised(ClearError(outcome[t].error))]
            /\ UNCHANGED <<call, pc, attempt, sha, hist, sent>>
       ELSE LET files == NextToClear(IF caller[t].phase = "listAll" THEN result[t]
                                     ELSE caller[t].files)
            IN IF files = <<>>
                 THEN /\ caller' = [caller EXCEPT ![t].phase = "returned", ![t].files = <<>>,
                                                  ![t].deleted = DeletedSoFar(t)]
                      /\ UNCHANGED <<call, pc, attempt, sha, outcome, hist, sent>>
                 ELSE /\ caller' = [caller EXCEPT ![t].phase = "files", ![t].files = Tail(files),
                                                  ![t].deleted = DeletedSoFar(t)]
                      /\ call' = [call EXCEPT ![t] =
                                    [op |-> "delete", path |-> Head(files),
                                     content |-> "", retries |-> DefaultRetries]]
                      /\ Set(t, "fetch", 1, FreshSha(sha[t]), Pending, NoHist)
  /\ UNCHANGED <<directoryLocks, store, result, walk, ctxVars, rices>>

\* ------------------------------------------------------------ start-up
\* The service from its construction on: any environment, onModuleInit,
\* and, once the application listens, calls of every operation on a record
\* folder that holds a file and a sub-directory.
ConfigValues(k) ==
  IF k \in ConfigKeys THEN {Undefined, Str(""), DeployedConfig[k]} ELSE {DeployedConfig[k]}

Configs == {cfg \in [EnvKeys -> UNION {ConfigValues(k) : k \in EnvKeys}] :
              \A k \in EnvKeys : cfg[k] \in ConfigValues(k)}

Branches == {"main", "trunk"}

LookupFaults ==
  {NotFoundError, RemoteError(StatusServerError, "m1"), RemoteError(StatusNone, "m1")}

BootStored == {PathData, PathInfo}

InitBoot ==
  /\ directoryLocks = << >>
  /\ store = [p \in Paths |-> IF p \in BootStored THEN Base64("X") ELSE Absent]
  /\ call = [t \in Tasks |-> NoCall]
  /\ pc = [t \in Tasks |-> "idle"]
  /\ attempt = [t \in Tasks |-> 0]
  /\ sha = [t \in Tasks |-> NoSha]
  /\ outcome = [t \in Tasks |-> Pending]
  /\ hist = [t \in Tasks |-> NoHist]
  /\ result = [t \in Tasks |-> NoResult]
  /\ walk = [t \in Tasks |-> NoWalk]
  /\ caller = [t \in Tasks |-> NoCaller]
  /\ sent = [t \in Tasks |-> NoTarget]
  /\ rices = AllRices
  /\ \E cfg \in Configs : Constructed(cfg)

BootNext ==
  \/ OnModuleInit
  \/ \E b \in Branches : ReposGetAnswer(b)
  \/ \E e \in LookupFaults : ReposGetFault(e)
  \/ \E t \in Callers : Listening /\ Call(t, "write", PathData, "A", DefaultRetries)
  \/ \E t \in Callers : Listening /\ Call(t, "delete", PathData, "", DefaultRetries)
  \/ \E t \in Callers : Listening /\ CallRead(t, PathData)
  \/ \E t \in Callers : Listening /\ CallList(t, PathDir)
  \/ \E t \in Callers : Listening /\ CallListAll(t)
  \/ \E t \in Callers : Listening /\ CallClear(t)
  \/ \E t \in Tasks : ClearResume(t)
  \/ \E t \in Tasks : LockPoll(t)
  \/ \E t \in Tasks : EnterLoop(t)
  \/ \E t \in Tasks : GetContentAnswer(t)
  \/ \E t \in Tasks, m \in CoreMsgs : MutationAnswer(t, m)
  \/ \E t \in Tasks : BackoffElapsed(t)
  \/ \E t \in Tasks : ReadAnswer(t)
  \/ \E t \in Tasks : ListAnswer(t)
  \/ \E t \in Tasks : WalkAnswer(t)

BootSpec == InitBoot /\ [][BootNext]_vars

\* ---------------------------------------------------- RicesService.remove
\* throw new NotFoundException('Rice not found')
RiceNotFound == Thrown("NotFoundException", StatusNotFound, "Rice not found", NoPath, "")

\* throw new UnauthorizedException('Invalid token')
InvalidToken == Thrown("UnauthorizedException", StatusUnauthorized, "Invalid token", NoPath, "")

\* A RicesService method throws before or between its service calls.
CallerRaises(t, err) ==
  /\ caller' = [caller EXCEPT ![t].phase = "raised"]
  /\ Set(t, "done", attempt[t], sha[t], Raised(err), hist[t])

\* remove(slug, token) is called: getRiceBySlug(slug) is awaited.
CallRemove(t, folder, token) ==
  /\ pc[t] = "idle"
  /\ caller' = [caller EXCEPT ![t] =
                  [NoCaller EXCEPT !.op = "remove", !.folder = folder, !.token = token,
                                   !.phase = "getRice"]]
  /\ pc' = [pc EXCEPT ![t] = "supabase"]
  /\ UNCHANGED <<directoryLocks, store, call, attempt, sha, outcome, hist, result, walk,
                 sent, ctxVars, rices>>

\* rice.token !== token, negated
TokenMatches(rice, token) == rice.token = token

\* getRiceBySlug has answered: without a row, or with another token than
\* the row's, remove throws; else deleteRice(slug) is awaited.
GetRiceAnswer(t) ==
  /\ pc[t] = "supabase" /\ caller[t].op = "remove" /\ caller[t].phase = "getRice"
  /\ LET rice == rices[caller[t].folder]
     IN IF ~rice.found
          THEN CallerRaises(t, RiceNotFound)
          ELSE IF ~TokenMatches(rice, caller[t].token)
            THEN CallerRaises(t, InvalidToken)
            ELSE /\ caller' = [caller EXCEPT ![t].phase = "deleteRice"]
                 /\ UNCHANGED <<pc, attempt, sha, outcome, hist, sent>>
  /\ UNCHANGED <<directoryLocks, store, call, result, walk, ctxVars, rices>>

\* deleteRice has answered, the row is gone:
\* listFilesInDirectory(folderPath) is called.
DeleteRiceAnswer(t) ==
  /\ pc[t] = "supabase" /\ caller[t].op = "remove" /\ caller[t].phase = "deleteRice"
  /\ rices' = [rices EXCEPT ![caller[t].folder] = NoRice]
  /\ caller' = [caller EXCEPT ![t].phase = "list"]
  /\ call' = [call EXCEPT ![t] =
                [op |-> "list", path |-> caller[t].folder, content |-> "", retries |-> 0]]
  /\ pc' = [pc EXCEPT ![t] = "list"]
  /\ Send(t)
  /\ UNCHANGED <<directoryLocks, store, attempt, sha, outcome, hist, result, walk, ctxVars>>

\* Mutant: the loop is left after its first pass.
RemainingNone(files) == <<>>

\* for (const file of files): the names of the passes to come
Remaining(files) == Tail(files)

\* const filePath = `${folderPath}/${file}`
FilePath(folder, file) == Append(folder, file)

\* The awaited call of remove has ended.  An exception leaves remove; else
\* the for loop calls deleteFile for the next name of the listing, and
\* after the last one deleteFolder(folderPath) is called.
RemoveResume(t) ==
  /\ caller[t].op = "remove" /\ caller[t].phase \in {"list", "files"}
  /\ pc[t] = "done"
  /\ IF outcome[t].kind = "raised"
       THEN /\ caller' = [caller EXCEPT ![t].phase = "raised", ![t].deleted = DeletedSoFar(t)]
            /\ UNCHANGED <<call, pc, attempt, sha, outcome, hist, sent>>
       ELSE LET files == IF caller[t].phase = "list" THEN result[t] ELSE caller[t].files
            IN IF files = <<>>
                 THEN /\ caller' = [caller EXCEPT ![t].phase = "folder", ![t].files = <<>>,
                                                  ![t].deleted = DeletedSoFar(t)]
                      /\ call' = [call EXCEPT ![t] =
                                    [op |-> "deleteFolder", path |-> caller[t].folder,
                                     content |-> "", retries |-> 0]]
                      /\ Set(t, "folder", 0, NoSha, Pending, NoHist)
                 ELSE /\ caller' = [caller EXCEPT ![t].phase = "files",
                                                  ![t].files = Remaining(files),
                                                  ![t].deleted = DeletedSoFar(t)]
                      /\ call' = [call EXCEPT ![t] =
                                    [op |-> "delete", path |-> FilePath(caller[t].folder, Head(files)),
                                     content |-> "", retries |-> DefaultRetries]]
                      /\ Set(t, "fetch", 1, FreshSha(sha[t]), Pending, NoHist)
  /\ UNCHANGED <<directoryLocks, store, result, walk, ctxVars, rices>>

\* deleteFolder(folderPath, message) is answered: the remote store keeps no
\* object for a directory, so removing the placeholder of a directory
\* leaves the stored files as they are.
DeleteFolderAnswer(t) ==
  /\ pc[t] = "folder"
  /\ Finish(t, Returned, hist[t])
  /\ caller' = [caller EXCEPT ![t].phase = "returned"]
  /\ UNCHANGED <<store, call, result, walk, ctxVars, rices>>

\* ------------------------------- moderation: removeRiceByModerator
\* process.env.MODERATION_SECRET
ProcessEnv(key) == configService[key]

\* throw new UnauthorizedException('Invalid moderation secret')
InvalidSecret ==
  Thrown("UnauthorizedException", StatusUnauthorized, "Invalid moderation secret",
         NoPath, "")

\* throw new Error('Failed to remove rice by moderation')
ModerationFailed ==
  Thrown("Error", StatusNone, "Failed to remove rice by moderation", NoPath, "")

\* Mutant: the header is not compared.
SecretAcceptedAlways(secret) == TRUE

\* moderationSecret !== process.env.MODERATION_SECRET, negated
SecretAccepted(secret) == secret = ProcessEnv("MODERATION_SECRET")

\* rices/${slug}/data.zenrice
DataFile(folder) == Append(folder, "data")

\* DELETE rices/moderate/delete/:slug arrives with the header secret: the
\* controller throws on another secret than the configured one, else it
\* calls moderateRemove(slug), which awaits getRiceBySlug(slug).
CallModerateRemove(t, folder, secret) ==
  /\ pc[t] = "idle"
  /\ IF ~SecretAccepted(secret)
       THEN /\ caller' = [caller EXCEPT ![t] =
                            [NoCaller EXCEPT !.op = "moderateRemove", !.folder = folder,
                                             !.secret = secret, !.phase = "raised"]]
            /\ Set(t, "done", attempt[t], sha[t], Raised(InvalidSecret), hist[t])
       ELSE /\ caller' = [caller EXCEPT ![t] =
                            [NoCaller EXCEPT !.op = "moderateRemove", !.folder = folder,
                                             !.secret = secret, !.phase = "getRice"]]
            /\ pc' = [pc EXCEPT ![t] = "supabase"]
            /\ UNCHANGED <<attempt, sha, outcome, hist, sent>>
  /\ UNCHANGED <<directoryLocks, store, call, result, walk, ctxVars, rices>>

\* getRiceBySlug has answered moderateRemove: without a row it throws
\* NotFoundException, which its catch throws on; else deleteRice(slug) is
\* awaited.
ModerateGetRiceAnswer(t) ==
  /\ pc[t] = "supabase" /\ caller[t].op = "moderateRemove" /\ caller[t].phase = "getRice"
  /\ IF ~rices[caller[t].folder].found
       THEN CallerRaises(t, RiceNotFound)
       ELSE /\ caller' = [caller EXCEPT ![t].phase = "deleteRice"]
            /\ UNCHANGED <<pc, attempt, sha, outcome, hist, sent>>
  /\ UNCHANGED <<directoryLocks, store, call, result, walk, ctxVars, rices>>

\* deleteRice has answered moderateRemove, the row is gone:
\* deleteFile(rices/${slug}/data.zenrice) is called.
ModerateDeleteRiceAnswer(t) ==
  /\ pc[t] = "supabase" /\ caller[t].op = "moderateRemove" /\ caller[t].phase = "deleteRice"
  /\ rices' = [rices EXCEPT ![caller[t].folder] = NoRice]
  /\ caller' = [caller EXCEPT ![t].phase = "data"]
  /\ call' = [call EXCEPT ![t] =
                [op |-> "delete", path |-> DataFile(caller[t].folder), content |-> "",
                 retries |-> DefaultRetries]]
  /\ Set(t, "fetch", 1, FreshSha(sha[t]), Pending, NoHist)
  /\ UNCHANGED <<directoryLocks, store, result, walk, ctxVars>>

\* The awaited call of moderateRemove has ended.  Its catch turns an
\* exception into Error('Failed to remove rice by moderation'); else
\* listFilesInDirectory follows the deleteFile of the data file, the for
\* loop calls deleteFile for every listed name, and deleteFolder comes last.
ModerateResume(t) ==
  /\ caller[t].op = "moderateRemove" /\ caller[t].phase \in {"data", "list", "files"}
  /\ pc[t] = "done"
  /\ IF outcome[t].kind = "raised"
       THEN /\ caller' = [caller EXCEPT ![t].phase = "raised", ![t].deleted = DeletedSoFar(t)]
            /\ outcome' = [outcome EXCEPT ![t] = Raised(ModerationFailed)]
            /\ UNCHANGED <<call, pc, attempt, sha, hist, sent>>
       ELSE IF caller[t].phase = "data"
         THEN /\ caller' = [caller EXCEPT ![t].phase = "list", ![t].deleted = DeletedSoFar(t)]
              /\ call' = [call EXCEPT ![t] =
                            [op |-> "list", path |-> caller[t].folder, content |-> "",
                             retries |-> 0]]
              /\ Set(t, "list", 0, NoSha, Pending, NoHist)
         ELSE LET files == IF caller[t].phase = "list" THEN result[t] ELSE caller[t].files
              IN IF files = <<>>
                   THEN /\ caller' = [caller EXCEPT ![t].phase = "folder", ![t].files = <<>>,
                                                    ![t].deleted = DeletedSoFar(t)]
                        /\ call' = [call EXCEPT ![t] =
                                      [op |-> "deleteFolder", path |-> caller[t].folder,
                                       content |-> "", retries |-> 0]]
                        /\ Set(t, "folder", 0, NoSha, Pending, NoHist)
                   ELSE /\ caller' = [caller EXCEPT ![t].phase = "files",
                                                    ![t].files = Remaining(files),
                                                    ![t].deleted = DeletedSoFar(t)]
                        /\ call' = [call EXCEPT ![t] =
                                      [op |-> "delete",
                                       path |-> FilePath(caller[t].folder, Head(files)),
                                       content |-> "", retries |-> DefaultRetries]]
                        /\ Set(t, "fetch", 1, FreshSha(sha[t]), Pending, NoHist)
  /\ UNCHANGED <<directoryLocks, store, result, walk, ctxVars, rices>>

\* Record removals on the tree, every request answered from the state of
\* the store and nobody else changing it.

RemoveTokens == {OwnToken, "k2"}

RemoveNext ==
  \/ \E t \in Callers, d \in RemoveFolders, k \in RemoveTokens : CallRemove(t, d, k)
  \/ \E t \in Tasks : GetRiceAnswer(t)
  \/ \E t \in Tasks : DeleteRiceAnswer(t)
  \/ \E t \in Tasks : ListAnswer(t)
  \/ \E t \in Tasks : RemoveResume(t)
  \/ \E t \in Tasks : GetContentAnswer(t)
  \/ \E t \in Tasks, m \in CoreMsgs : MutationAnswer(t, m)
  \/ \E t \in Tasks : DeleteFolderAnswer(t)

RemoveSpec == InitTree /\ [][RemoveNext]_vars

\* The removal of one record run again after it has ended: the folder holds
\* files directly under it only, the caller holds the record's token, and
\* the remote store fails some of the requests.
FlatPaths == {PathData, PathNotes}

InitFlat ==
  /\ directoryLocks = << >>
  /\ store \in {s \in [Paths -> {Absent} \cup {Base64(c) : c \in ExtContents}] :
                  \A p \in Paths \ FlatPaths : s[p] = Absent}
  /\ call = [t \in Tasks |-> NoCall]
  /\ pc = [t \in Tasks |-> "idle"]
  /\ attempt = [t \in Tasks |-> 0]
  /\ sha = [t \in Tasks |-> NoSha]
  /\ outcome = [t \in Tasks |-> Pending]
  /\ hist = [t \in Tasks |-> NoHist]
  /\ result = [t \in Tasks |-> NoResult]
  /\ walk = [t \in Tasks |-> NoWalk]
  /\ caller = [t \in Tasks |-> NoCaller]
  /\ Deployed

\* A remove call on the record of folder f has not ended.
RemovalRunning(f) ==
  \E t \in Tasks :
    caller[t].op = "remove" /\ caller[t].folder = f
      /\ caller[t].phase \notin {"returned", "raised"}

RerunNext ==
  \/ \E t \in Callers : ~RemovalRunning(PathDir) /\ CallRemove(t, PathDir, OwnToken)
  \/ \E t \in Tasks : GetRiceAnswer(t)
  \/ \E t \in Tasks : DeleteRiceAnswer(t)
  \/ \E t \in Tasks : ListAnswer(t)
  \/ \E t \in Tasks, e \in CoreFaults : ListFault(t, e)
  \/ \E t \in Tasks : RemoveResume(t)
  \/ \E t \in Tasks : GetContentAnswer(t)
  \/ \E t \in Tasks, e \in CoreFaults : GetContentFault(t, e)
  \/ \E t \in Tasks, m \in CoreMsgs : MutationAnswer(t, m)
  \/ \E t \in Tasks, e \in CoreFaults : MutationFault(t, e)
  \/ \E t \in Tasks : DeleteFolderAnswer(t)

RerunSpec == InitFlat /\ [][RerunNext]_vars

\* Removals of the records, with the record's token or another one, next
\* to reads of the files of a record, every request answered from the
\* state of the store and the table.
RecordNext ==
  \/ \E t \in Callers, k \in RemoveTokens : CallRemove(t, PathDir, k)
  \/ \E t \in Callers, p \in FlatPaths : CallRead(t, p)
  \/ \E t \in Tasks : GetRiceAnswer(t)
  \/ \E t \in Tasks : DeleteRiceAnswer(t)
  \/ \E t \in Tasks : ListAnswer(t)
  \/ \E t \in Tasks : RemoveResume(t)
  \/ \E t \in Tasks : GetContentAnswer(t)
  \/ \E t \in Tasks, m \in CoreMsgs : MutationAnswer(t, m)
  \/ \E t \in Tasks : DeleteFolderAnswer(t)
  \/ \E t \in Tasks : ReadAnswer(t)

RecordSpec == InitFlat /\ [][RecordNext]_vars

\* Moderation requests for one record, which may have its row or not, with
\* the secret configured or not; the remote store fails some fetches.
Secrets == {Undefined, Str("s1"), Str("s2")}

InitModerate ==
  /\ directoryLocks = << >>
  /\ store \in {s \in [Paths -> {Absent} \cup {Base64(c) : c \in ExtContents}] :
                  \A p \in Paths \ FlatPaths : s[p] = Absent}
  /\ call = [t \in Tasks |-> NoCall]
  /\ pc = [t \in Tasks |-> "idle"]
  /\ attempt = [t \in Tasks |-> 0]
  /\ sha = [t \in Tasks |-> NoSha]
  /\ outcome = [t \in Tasks |-> Pending]
  /\ hist = [t \in Tasks |-> NoHist]
  /\ result = [t \in Tasks |-> NoResult]
  /\ walk = [t \in Tasks |-> NoWalk]
  /\ caller = [t \in Tasks |-> NoCaller]
  /\ sent = [t \in Tasks |-> NoTarget]
  /\ rices \in {AllRices, [AllRices EXCEPT ![PathDir] = NoRice]}
  /\ \E v \in {Undefined, Str("s1")} :
       Serving([DeployedConfig EXCEPT !["MODERATION_SECRET"] = v], InitialBranch)

ModerateNext ==
  \/ \E t \in Callers, k \in Secrets : CallModerateRemove(t, PathDir, k)
  \/ \E t \in Tasks : ModerateGetRiceAnswer(t)
  \/ \E t \in Tasks : ModerateDeleteRiceAnswer(t)
  \/ \E t \in Tasks : ModerateResume(t)
  \/ \E t \in Tasks : GetContentAnswer(t)
  \/ \E t \in Tasks, e \in CoreFaults : GetContentFault(t, e)
  \/ \E t \in Tasks, m \in CoreMsgs : MutationAnswer(t, m)
  \/ \E t \in Tasks : ListAnswer(t)
  \/ \E t \in Tasks : DeleteFolderAnswer(t)

ModerateSpec == InitModerate /\ [][ModerateNext]_vars

\* Writers of the files of one directory that arrive one after another, in
\* the order of their numbers, each one after the first while the guard is
\* held: every writer but the first starts by waiting, and a writer with a
\* lower number has started to wait earlier.
ArrivalPaths == {PathData, PathNotes}

Arrives(t, p) ==
  /\ \A u \in Tasks : u < t => pc[u] # "idle"
  /\ t > 1 => LockHeld(Dirname(p))

ArrivalNext ==
  \/ \E t \in Tasks, p \in ArrivalPaths, c \in CoreContents :
       Arrives(t, p) /\ Call(t, "write", p, c, DefaultRetries)
  \/ \E t \in Tasks : LockPoll(t)
  \/ \E t \in Tasks : EnterLoop(t)
  \/ \E t \in Tasks : GetContentAnswer(t)
  \/ \E t \in Tasks, m \in CoreMsgs : MutationAnswer(t, m)

ArrivalSpec == InitQuiet /\ [][ArrivalNext]_vars

\* A stream of writers of one file: the request a task has served is over
\* and the task serves the next one.
NextRequest(t) ==
  /\ pc[t] = "done"
  /\ pc' = [pc EXCEPT ![t] = "idle"]
  /\ call' = [call EXCEPT ![t] = NoCall]
  /\ attempt' = [attempt EXCEPT ![t] = 0]
  /\ sha' = [sha EXCEPT ![t] = NoSha]
  /\ outcome' = [outcome EXCEPT ![t] = Pending]
  /\ hist' = [hist EXCEPT ![t] = NoHist]
  /\ sent' = [sent EXCEPT ![t] = NoTarget]
  /\ UNCHANGED <<directoryLocks, store, readVars, ctxVars, rices>>

StreamStep(t) ==
  \/ Call(t, "write", PathData, "A", DefaultRetries)
  \/ LockPoll(t)
  \/ EnterLoop(t)
  \/ GetContentAnswer(t)
  \/ \E m \in CoreMsgs : MutationAnswer(t, m)
  \/ NextRequest(t)

StreamNext == \E t \in Tasks : StreamStep(t)

\* Every task that can take a step without interruption takes one: the
\* event loop runs every callback that is ready.
StreamSpec == InitQuiet /\ [][StreamNext]_vars /\ \A t \in Tasks : WF_vars(StreamStep(t))

\* Writers of the files of one directory, with another writer of the remote
\* store replacing one of the files, which makes PUT requests conflict.
HoldPaths == {PathData, PathNotes}

HoldNext ==
  \/ \E t \in Callers, p \in HoldPaths, c \in CoreContents :
       Call(t, "write", p, c, DefaultRetries)
  \/ \E t \in Tasks : LockPoll(t)
  \/ \E t \in Tasks : EnterLoop(t)
  \/ \E t \in Tasks : GetContentAnswer(t)
  \/ \E t \in Tasks, m \in CoreMsgs : MutationAnswer(t, m)
  \/ \E t \in Tasks : BackoffElapsed(t)
  \/ \E c \in ExtContents \cup {"Y"} : ExtWrite(PathData, c)

HoldSpec == InitQuiet /\ [][HoldNext]_vars

\* Writes to files of three directories, with and without iterations of the
\* retry loop, next to deletes of one of the files.
TablePaths == {PathData, PathOther, PathInfo}
TableRetries == {0, DefaultRetries}

TableNext ==
  \/ \E t \in Callers, p \in TablePaths, r \in TableRetries :
       Call(t, "write", p, "A", r)
  \/ \E t \in Callers : Call(t, "delete", PathData, "", DefaultRetries)
  \/ \E t \in Tasks : LockPoll(t)
  \/ \E t \in Tasks : EnterLoop(t)
  \/ \E t \in Tasks : GetContentAnswer(t)
  \/ \E t \in Tasks, m \in CoreMsgs : MutationAnswer(t, m)
  \/ \E t \in Tasks : BackoffElapsed(t)

TableSpec == InitQuiet /\ [][TableNext]_vars

\* clearRepository on a tree that nobody else changes: the root .gitignore,
\* a .gitkeep and a .gitignore in a record directory, a file directly under
\* that directory and a file in a sub-directory, any of which may exist.  A
\* getContent or a DELETE may fail with a server error.
ClearPaths == {PathIgnore, PathKeep, PathInnerIgnore, PathData, PathInfo}
ClearCallers == {1}

InitClear ==
  /\ directoryLocks = << >>
  /\ store \in {s \in [Paths -> {Absent, Base64("X")}] :
                  \A p \in Paths \ ClearPaths : s[p] = Absent}
  /\ call = [t \in Tasks |-> NoCall]
  /\ pc = [t \in Tasks |-> "idle"]
  /\ attempt = [t \in Tasks |-> 0]
  /\ sha = [t \in Tasks |-> NoSha]
  /\ outcome = [t \in Tasks |-> Pending]
  /\ hist = [t \in Tasks |-> NoHist]
  /\ result = [t \in Tasks |-> NoResult]
  /\ walk = [t \in Tasks |-> NoWalk]
  /\ caller = [t \in Tasks |-> NoCaller]
  /\ Deployed

ClearNext ==
  \/ \E t \in ClearCallers : CallClear(t)
  \/ \E t \in Tasks : WalkAnswer(t)
  \/ \E t \in Tasks, e \in CoreFaults : WalkFault(t, e)
  \/ \E t \in Tasks : ClearResume(t)
  \/ \E t \in Tasks : GetContentAnswer(t)
  \/ \E t \in Tasks, e \in CoreFaults : GetContentFault(t, e)
  \/ \E t \in Tasks, m \in CoreMsgs : MutationAnswer(t, m)
  \/ \E t \in Tasks, e \in CoreFaults : MutationFault(t, e)

ClearSpec == InitClear /\ [][ClearNext]_vars

\* ---------------------------------------------------- RicesService.update
StatusBadRequest == 400

\* The names the methods read from their headers argument.  Node's http parser
\* lower-cases the names of req.headers, which is what the controller passes.
HeaderNames == {"x-zen-rice-name", "x-zen-rice-author", "user-agent", "User-Agent"}

\* headers[name] of a name the request does not carry
NoHeaders == [k \in HeaderNames |-> Undefined]

\* The headers of a request of the browser, under the names the controller
\* passes them with.
RequestHeaders(name, agent) ==
  [NoHeaders EXCEPT !["x-zen-rice-name"] = name,
                    !["x-zen-rice-author"] = Str("a1"),
                    !["user-agent"] = agent]

\* The headers a caller of the method passes under the capitalised name.
DirectHeaders(agent) == [NoHeaders EXCEPT !["User-Agent"] = agent]

ZenAgent == "ZenBrowser/1.0.1 (linux)"
OtherAgent == "curl/8.0"

\* userAgent.match(userAgentRegex) on the agents above: the match with its
\* two groups, or null.
NoMatch == <<>>
AgentMatch(agent) ==
  IF agent = ZenAgent THEN <<agent, "1.0.1", "linux">> ELSE NoMatch

\* The request bodies, and JSON.parse of each.
RiceJson == "{rice}"
EmptyJson == "{}"
NumberJson == "7"
BrokenJson == "{rice"
RequiredKeys == {"userChrome", "userContent", "enabledMods", "preferences", "workspaceThemes"}
JsonParse(s) ==
  CASE s = RiceJson -> [kind |-> "object", keys |-> RequiredKeys]
    [] s = EmptyJson -> [kind |-> "object", keys |-> {}]
    [] s = NumberJson -> [kind |-> "number", keys |-> {}]
    [] OTHER -> [kind |-> "syntaxError", keys |-> {}]

\* validateJsonStructure(jsonString) returns true, that is, does not throw
ValidJsonStructure(s) ==
  LET json == JsonParse(s)
  IN /\ json.kind # "syntaxError"
     /\ json.kind = "object"
     /\ {k \in RequiredKeys : k \notin json.keys} = {}

\* The BadRequestExceptions of update and create.
MissingHeaders ==
  Thrown("BadRequestException", StatusBadRequest,
         "Missing required headers: X-Zen-Rice-Name, X-Zen-Rice-Author, and User-Agent are mandatory.",
         NoPath, "")
InvalidRequest == Thrown("BadRequestException", StatusBadRequest, "Invalid request", NoPath, "")
InvalidJsonRequest ==
  Thrown("BadRequestException", StatusBadRequest, "Invalid json request", NoPath, "")

\* throw new UnauthorizedException('Invalid token.')
InvalidTokenUpdate ==
  Thrown("UnauthorizedException", StatusUnauthorized, "Invalid token.", NoPath, "")

\* const userAgent = headers['User-Agent']
UpdateAgent(headers) == headers["User-Agent"]

\* update(slug, token, content, headers) is called: the headers and the
\* content are validated in the synchronous part, before any record is
\* looked at; then getRiceBySlug(slug) is awaited.
CallUpdate(t, folder, token, content, headers) ==
  /\ pc[t] = "idle"
  /\ LET userAgent == UpdateAgent(headers)
         entered == [NoCaller EXCEPT !.op = "update", !.folder = folder, !.token = token,
                                     !.content = content]
         Throws(err) ==
           /\ caller' = [caller EXCEPT ![t] = [entered EXCEPT !.phase = "raised"]]
           /\ Set(t, "done", attempt[t], sha[t], Raised(err), hist[t])
     IN IF Falsy(userAgent) THEN Throws(MissingHeaders)
        ELSE IF AgentMatch(userAgent[2]) = NoMatch THEN Throws(InvalidRequest)
        ELSE IF ~ValidJsonStructure(content) THEN Throws(InvalidJsonRequest)
        ELSE /\ caller' = [caller EXCEPT ![t] =
                             [entered EXCEPT !.agent = userAgent[2], !.phase = "getRice"]]
             /\ pc' = [pc EXCEPT ![t] = "supabase"]
             /\ UNCHANGED <<attempt, sha, outcome, hist, sent>>
  /\ UNCHANGED <<directoryLocks, store, call, result, walk, ctxVars, rices>>

\* getRiceBySlug has answered: without a row, or with another token than
\* the row's, update throws; else updateRice(slug, updatedMetadata) is
\* awaited.
UpdateGetRiceAnswer(t) ==
  /\ pc[t] = "supabase" /\ caller[t].op = "update" /\ caller[t].phase = "getRice"
  /\ LET rice == rices[caller[t].folder]
     IN IF ~rice.found
          THEN CallerRaises(t, RiceNotFound)
          ELSE IF ~TokenMatches(rice, caller[t].token)
            THEN CallerRaises(t, InvalidTokenUpdate)
            ELSE /\ caller' = [caller EXCEPT ![t].phase = "updateRice"]
                 /\ UNCHANGED <<pc, attempt, sha, outcome, hist, sent>>
  /\ UNCHANGED <<directoryLocks, store, call, result, walk, ctxVars, rices>>

\* updateRice has answered: the row of the slug, if there is one, carries
\* the version and the os of the user agent.  The content is encoded and
\* createOrUpdateFile is called with it.
UpdateRiceAnswer(t) ==
  /\ pc[t] = "supabase" /\ caller[t].op = "update" /\ caller[t].phase = "updateRice"
  /\ LET f == caller[t].folder
         match == AgentMatch(caller[t].agent)
     IN rices' = IF rices[f].found
                   THEN [rices EXCEPT ![f].version = match[2], ![f].os = match[3]]
                   ELSE rices
  /\ caller' = [caller EXCEPT ![t].phase = "file"]
  /\ call' = [call EXCEPT ![t] =
                [op |-> "write", path |-> DataFile(caller[t].folder),
                 content |-> Base64(caller[t].content), retries |-> DefaultRetries]]
  /\ LockDirectory(t, Dirname(DataFile(caller[t].folder)))
  /\ UNCHANGED <<store, attempt, sha, outcome, hist, sent, result, walk, ctxVars>>

\* createOrUpdateFile has ended: update returns its message, or its catch
\* throws the error on.
UpdateResume(t) ==
  /\ caller[t].op = "update" /\ caller[t].phase = "file"
  /\ pc[t] = "done"
  /\ caller' = [caller EXCEPT ![t].phase = outcome[t].kind]
  /\ UNCHANGED <<directoryLocks, store, call, pc, attempt, sha, outcome, hist, sent,
                 result, walk, ctxVars, rices>>

\* Updates and removals of one record, which may have its row or not; the
\* callers hold the record's token or another one, send a rice or something
\* else, and name the user agent as the controller or as a direct caller
\* does.  A removal is called with the other token only, so no row is
\* deleted.
OtherToken == "k2"
UpdateTokens == {OwnToken, OtherToken}
UpdateContents == {RiceJson, BrokenJson}
UpdateHeaders ==
  {RequestHeaders(Undefined, Str(ZenAgent)), DirectHeaders(Str(ZenAgent)),
   DirectHeaders(Str(OtherAgent))}

InitUpdate ==
  /\ directoryLocks = << >>
  /\ store \in {s \in [Paths -> {Absent, Base64(Base64(RiceJson))}] :
                  \A p \in Paths \ {PathData} : s[p] = Absent}
  /\ call = [t \in Tasks |-> NoCall]
  /\ pc = [t \in Tasks |-> "idle"]
  /\ attempt = [t \in Tasks |-> 0]
  /\ sha = [t \in Tasks |-> NoSha]
  /\ outcome = [t \in Tasks |-> Pending]
  /\ hist = [t \in Tasks |-> NoHist]
  /\ result = [t \in Tasks |-> NoResult]
  /\ walk = [t \in Tasks |-> NoWalk]
  /\ caller = [t \in Tasks |-> NoCaller]
  /\ rices \in {AllRices, [AllRices EXCEPT ![PathDir] = NoRice]}
  /\ Deployed

UpdateNext ==
  \/ \E t \in Callers, k \in UpdateTokens, c \in UpdateContents, h \in UpdateHeaders :
       CallUpdate(t, PathDir, k, c, h)
  \/ \E t \in Callers : CallRemove(t, PathDir, OtherToken)
  \/ \E t \in Tasks : UpdateGetRiceAnswer(t)
  \/ \E t \in Tasks : UpdateRiceAnswer(t)
  \/ \E t \in Tasks : UpdateResume(t)
  \/ \E t \in Tasks : GetRiceAnswer(t)
  \/ \E t \in Tasks : LockPoll(t)
  \/ \E t \in Tasks : EnterLoop(t)
  \/ \E t \in Tasks : GetContentAnswer(t)
  \/ \E t \in Tasks, m \in CoreMsgs : MutationAnswer(t, m)

UpdateSpec == InitUpdate /\ [][UpdateNext]_vars

\* ---------------------------------------------------- RicesService.create
\* throw new BadRequestException('Rice name and author are required!')
NameRequired ==
  Thrown("BadRequestException", StatusBadRequest, "Rice name and author are required!",
         NoPath, "")

\* throw new ConflictException(`A rice with the name '${name}' already exists.`)
NameExists(name) ==
  Thrown("ConflictException", StatusConflict, "A rice with the name already exists.",
         NoPath, name)

\* insertRice: throw new Error(`Failed to insert rice: ${error.message}`)
InsertFailed ==
  Thrown("Error", StatusNone, "Failed to insert rice", NoPath, "")

\* The slugs of the rows with a name.
SlugsOfName(name) == {f \in RemoveFolders : rices[f].found /\ rices[f].name = name}

\* getRiceByName(name): select('*').eq('name', name).single() gives the row
\* if exactly one row has the name; with no row, and with several, the
\* answer is the error PGRST116, for which the method returns data, null.
GetRiceByName(name) ==
  IF Cardinality(SlugsOfName(name)) = 1
    THEN rices[CHOOSE f \in SlugsOfName(name) : TRUE]
    ELSE NoRice

\* A create call that has its slug and has not ended.
Creating(t) ==
  caller[t].op = "create" /\ caller[t].phase \in {"insertRice", "file"}

\* The slugs uuidv4() can complete: those no row and no running create has.
FreshSlugs ==
  {f \in RemoveFolders :
     ~rices[f].found /\ \A t \in Tasks : ~(Creating(t) /\ caller[t].folder = f)}

\* const token = uuidv4()
CreatedToken == "k3"

\* create(content, headers) is called: the headers and the content are
\* validated in the synchronous part (the names, authors and agents of the
\* requests are within the lengths), then getRiceByName(name) is awaited.
CallCreate(t, content, headers) ==
  /\ pc[t] = "idle"
  /\ LET name == headers["x-zen-rice-name"]
         author == headers["x-zen-rice-author"]
         userAgent == headers["user-agent"]
         entered == [NoCaller EXCEPT !.op = "create", !.content = content]
         Throws(err) ==
           /\ caller' = [caller EXCEPT ![t] = [entered EXCEPT !.phase = "raised"]]
           /\ Set(t, "done", attempt[t], sha[t], Raised(err), hist[t])
     IN IF Falsy(name) \/ Falsy(author) \/ Falsy(userAgent) THEN Throws(NameRequired)
        ELSE IF ~ValidJsonStructure(content) THEN Throws(InvalidJsonRequest)
        ELSE IF AgentMatch(userAgent[2]) = NoMatch THEN Throws(InvalidRequest)
        ELSE /\ caller' = [caller EXCEPT ![t] =
                             [entered EXCEPT !.name = name[2], !.agent = userAgent[2],
                                             !.phase = "getByName"]]
             /\ pc' = [pc EXCEPT ![t] = "supabase"]
             /\ UNCHANGED <<attempt, sha, outcome, hist, sent>>
  /\ UNCHANGED <<directoryLocks, store, call, result, walk, ctxVars, rices>>

\* getRiceByName has answered: with a row create throws the
\* ConflictException; without one it makes the slug and the token and
\* awaits insertRice(metadata).
CreateGetByNameAnswer(t) ==
  /\ pc[t] = "supabase" /\ caller[t].op = "create" /\ caller[t].phase = "getByName"
  /\ LET existingRice == GetRiceByName(caller[t].name)
     IN IF existingRice.found
          THEN CallerRaises(t, NameExists(caller[t].name))
          ELSE /\ \E slug \in FreshSlugs :
                    caller' = [caller EXCEPT ![t].phase = "insertRice",
                                             ![t].folder = slug,
                                             ![t].token = CreatedToken]
               /\ UNCHANGED <<pc, attempt, sha, outcome, hist, sent>>
  /\ UNCHANGED <<directoryLocks, store, call, result, walk, ctxVars, rices>>

\* insertRice has answered.  The table refuses a second row with the slug
\* (UNIQUE (slug)) and nothing else: the row is inserted, the content is
\* encoded and createOrUpdateFile is called with it.
CreateInsertAnswer(t) ==
  /\ pc[t] = "supabase" /\ caller[t].op = "create" /\ caller[t].phase = "insertRice"
  /\ LET slug == caller[t].folder
         match == AgentMatch(caller[t].agent)
     IN IF rices[slug].found
          THEN /\ CallerRaises(t, InsertFailed)
               /\ UNCHANGED <<directoryLocks, call, rices>>
          ELSE /\ rices' = [rices EXCEPT ![slug] =
                              Row(caller[t].token, caller[t].name, match[2], match[3])]
               /\ caller' = [caller EXCEPT ![t].phase = "file"]
               /\ call' = [call EXCEPT ![t] =
                             [op |-> "write", path |-> DataFile(slug),
                              content |-> Base64(caller[t].content),
                              retries |-> DefaultRetries]]
               /\ LockDirectory(t, Dirname(DataFile(slug)))
               /\ UNCHANGED <<attempt, sha, outcome, hist, sent>>
  /\ UNCHANGED <<store, result, walk, ctxVars>>

\* createOrUpdateFile has ended: create returns the slug and the token, or
\* its catch throws the error on.
CreateResume(t) ==
  /\ caller[t].op = "create" /\ caller[t].phase = "file"
  /\ pc[t] = "done"
  /\ caller' = [caller EXCEPT ![t].phase = outcome[t].kind]
  /\ UNCHANGED <<directoryLocks, store, call, pc, attempt, sha, outcome, hist, sent,
                 result, walk, ctxVars, rices>>

\* Creates with two names, on a table that is empty or holds one row; a
\* request may lack its name or carry something else than a rice.
CreateNames == {"n1", "n2"}
CreateContents == {RiceJson, NumberJson}
CreateHeaders ==
  {RequestHeaders(Str(n), Str(ZenAgent)) : n \in CreateNames}
    \cup {RequestHeaders(Undefined, Str(ZenAgent))}

InitCreate ==
  /\ directoryLocks = << >>
  /\ \E r \in {[f \in RemoveFolders |-> NoRice],
               [f \in RemoveFolders |-> IF f = PathDir THEN Rice(f) ELSE NoRice]} :
       /\ rices = r
       /\ store = [p \in Paths |->
                     IF p = PathData /\ r[PathDir].found
                       THEN Base64(Base64(RiceJson)) ELSE Absent]
  /\ call = [t \in Tasks |-> NoCall]
  /\ pc = [t \in Tasks |-> "idle"]
  /\ attempt = [t \in Tasks |-> 0]
  /\ sha = [t \in Tasks |-> NoSha]
  /\ outcome = [t \in Tasks |-> Pending]
  /\ hist = [t \in Tasks |-> NoHist]
  /\ result = [t \in Tasks |-> NoResult]
  /\ walk = [t \in Tasks |-> NoWalk]
  /\ caller = [t \in Tasks |-> NoCaller]
  /\ Serving(DeployedConfig, InitialBranch)
  /\ sent = [t \in Tasks |-> NoTarget]

CreateNext ==
  \/ \E t \in Tasks, c \in CreateContents, h \in CreateHeaders : CallCreate(t, c, h)
  \/ \E t \in Tasks : CreateGetByNameAnswer(t)
  \/ \E t \in Tasks : CreateInsertAnswer(t)
  \/ \E t \in Tasks : CreateResume(t)
  \/ \E t \in Tasks : EnterLoop(t)
  \/ \E t \in Tasks : GetContentAnswer(t)
  \/ \E t \in Tasks, m \in CoreMsgs : MutationAnswer(t, m)

CreateSpec == InitCreate /\ [][CreateNext]_vars

\* ================================================================ claims
IsWrite(t) == call[t].op = "write"
IsDelete(t) == call[t].op = "delete"
Dir(t) == Dirname(call[t].path)
Dirs == {Dirname(p) : p \in Paths}
Done(t) == pc[t] = "done"

\* Inside the guarded section of createOrUpdateFile: lockDirectory has set the
\* entry and unlockDirectory has not run yet.
InGuard(t) == IsWrite(t) /\ pc[t] \in {"locked", "fetch", "mutate", "backoff"}

Holders(d) == {t \in Tasks : InGuard(t) /\ Dir(t) = d}

\* The entry of d in the lock table is marked held.
EntryHeld(d) == d \in DOMAIN directoryLocks /\ directoryLocks[d] = TRUE

\* Between the answer of the first revision fetch and the end of the call.
InMutation(t) ==
  \/ pc[t] \in {"mutate", "backoff"}
  \/ pc[t] = "fetch" /\ attempt[t] > 1

\* C1: for every directory D at most one createOrUpdateFile call is inside
\* its guarded section, and a call is inside it only while the entry of D is
\* marked held: of the callers polling a free entry exactly one sets it.
C1_MutualExclusion ==
  \A d \in Dirs :
    /\ Cardinality(Holders(d)) <= 1
    /\ Holders(d) # {} => EntryHeld(d)

\* C1 witness: two calls were polling the entry of D; its holder has ended,
\* one of the two has set the entry and the other one, for a different file
\* of D, is still polling.
C1_Witness ==
  \E t0, t1, t2 \in Tasks :
    /\ t0 # t1 /\ t0 # t2 /\ t1 # t2
    /\ IsWrite(t0) /\ Done(t0) /\ Dir(t0) = Dir(t1)
    /\ InGuard(t1) /\ pc[t1] = "locked"
    /\ IsWrite(t2) /\ pc[t2] = "lockwait"
    /\ Dir(t1) = Dir(t2) /\ call[t1].path # call[t2].path

\* C2: a deleteFile call and another mutating call (write or delete) on
\* paths of the same directory are never both between their revision fetch
\* and the completion of their mutation.
C2_DeletesSerialized ==
  \A t1, t2 \in Tasks :
    (t1 # t2 /\ IsDelete(t1) /\ call[t2].op \in Ops /\ Dir(t1) = Dir(t2))
      => ~(InMutation(t1) /\ InMutation(t2))

\* C3: no terminated createOrUpdateFile call leaves its directory held: an
\* entry that is held belongs to a call that is still inside its guarded
\* section, so every call that returned or raised has set its entry to
\* not held.
C3_ReleasedOnTermination ==
  /\ \A d \in Dirs : EntryHeld(d) => Holders(d) # {}
  /\ \A t \in Tasks :
       (IsWrite(t) /\ Done(t) /\ Holders(Dir(t)) = {})
         => (Dir(t) \in DOMAIN directoryLocks /\ ~EntryHeld(Dir(t)))

\* C3 witness: a write has raised after a Conflict on its last attempt and
\* the entry of its directory is not held.
C3_Witness ==
  \E t \in Tasks :
    /\ IsWrite(t) /\ Done(t) /\ outcome[t].kind = "raised"
    /\ hist[t].lastStatus = StatusConflict /\ attempt[t] = DefaultRetries
    /\ Dir(t) \in DOMAIN directoryLocks /\ ~EntryHeld(Dir(t))

\* C4: every call that has started eventually terminates, when every task
\* that can take a step eventually takes one and the remote store answers
\* every request.
C4_EveryCallTerminates ==
  \A t \in Tasks : (pc[t] # "idle") ~> (pc[t] = "done")

\* C4 witness: a write to D has ended with a persistent conflict and a
\* later holder of the guard of D, a write that had to poll or came after
\* it, has just acquired the entry.
C4_Witness ==
  \E t1, t2 \in Tasks :
    /\ IsWrite(t1) /\ Done(t1) /\ outcome[t1].kind = "raised"
    /\ hist[t1].lastStatus = StatusConflict /\ attempt[t1] = DefaultRetries
    /\ IsWrite(t2) /\ Dir(t2) = Dir(t1) /\ pc[t2] = "locked"

\* A createOrUpdateFile call made with the default retries value.
DefaultWrite(t) == IsWrite(t) /\ call[t].retries = DefaultRetries

Started(t) == pc[t] \in {"fetch", "mutate", "backoff", "done"}

\* C5: a default createOrUpdateFile call makes at most 3 attempts numbered
\* from 1; an attempt is one revision fetch followed by at most one PUT, so
\* the call sends at most 3 fetches and at most 3 PUT requests.
C5_AtMostThreeAttempts ==
  \A t \in Tasks :
    DefaultWrite(t) =>
      /\ Started(t) => attempt[t] \in 1..3
      /\ ~Started(t) => hist[t].nFetch = 0 /\ hist[t].nReq = 0
      /\ hist[t].nFetch <= attempt[t]
      /\ hist[t].nReq <= hist[t].nFetch
      /\ hist[t].nReq <= 3
      /\ pc[t] = "fetch" => hist[t].nFetch = attempt[t] - 1
      /\ pc[t] \in {"mutate", "backoff", "done"} => hist[t].nFetch = attempt[t]

\* C5 witness: a call has sent its third PUT.
C5_Witness ==
  \E t \in Tasks :
    DefaultWrite(t) /\ pc[t] = "mutate" /\ attempt[t] = 3 /\ hist[t].nReq = 3

\* C6: the backoff waits of a default createOrUpdateFile call are 1000 ms
\* after the Conflict of attempt 1 and 2000 ms after that of attempt 2, with
\* no wait before attempt 1 and none after attempt 3; a call that succeeds
\* on attempt 3 has waited exactly 1000 then 2000 ms and made exactly one
\* successful PUT.
C6_BackoffSchedule ==
  \A t \in Tasks :
    DefaultWrite(t) =>
      LET w == hist[t].waits IN
      /\ Len(w) <= 2
      /\ \A k \in 1..Len(w) : w[k] = 1000 * Pow2(k - 1)
      /\ ~Started(t) => w = <<>>
      /\ pc[t] = "backoff" => Len(w) = attempt[t]
      /\ pc[t] \in {"fetch", "mutate", "done"} => Len(w) = attempt[t] - 1
      /\ (Done(t) /\ outcome[t].kind = "returned" /\ attempt[t] = 3)
           => (w = <<1000, 2000>> /\ hist[t].nOk = 1 /\ hist[t].nReq = 3)

\* C6 witness: a call has returned from its third attempt.
C6_Witness ==
  \E t \in Tasks :
    /\ DefaultWrite(t) /\ Done(t) /\ outcome[t].kind = "returned"
    /\ attempt[t] = 3 /\ hist[t].waits = <<1000, 2000>> /\ hist[t].nOk = 1

\* C7: a default createOrUpdateFile call that has ended has returned
\* normally exactly when a PUT of it succeeded; it has raised when its last
\* remote answer was a failure, a Conflict on attempt 3 included.
C7_NoSilentFailure ==
  \A t \in Tasks :
    (DefaultWrite(t) /\ Done(t)) =>
      /\ outcome[t].kind \in {"returned", "raised"}
      /\ outcome[t].kind = "returned" <=> hist[t].nOk = 1
      /\ outcome[t].kind = "returned" <=> hist[t].lastStatus = StatusOk
      /\ outcome[t].kind = "raised" => outcome[t].error # NoError
      /\ hist[t].nOk <= 1

\* C7 witness: all 3 attempts of a call ended in Conflict and it has raised.
C7_Witness ==
  \E t \in Tasks :
    /\ DefaultWrite(t) /\ Done(t) /\ outcome[t].kind = "raised"
    /\ hist[t].lastStatus = StatusConflict /\ hist[t].nReq = 3
    /\ hist[t].waits = <<1000, 2000>>

\* The remote answer that ended the call was a Conflict.
EndedByConflict(t) == hist[t].lastStatus = StatusConflict

\* C8: the error a caller receives for a Conflict on the final attempt
\* differs from the error it receives for any other remote failure.
C8_ConflictDistinctFromTransport ==
  \A t1, t2 \in Tasks :
    ( /\ Done(t1) /\ outcome[t1].kind = "raised" /\ EndedByConflict(t1)
      /\ Done(t2) /\ outcome[t2].kind = "raised" /\ ~EndedByConflict(t2) )
      => outcome[t1].error # outcome[t2].error

\* The last mutation request of t and the revision fetch of its attempt.
ReqPaired(t) ==
  /\ hist[t].req.kind # "none"
  /\ hist[t].req.attempt = hist[t].fetched.attempt

\* C9 as stated: a mutation request carries the token fetched in the same
\* attempt; a PUT omits the token only when that fetch answered NotFound; a
\* DELETE always carries the fetched token.
C9_TokenOmittedOnlyOnNotFound ==
  \A t \in Tasks :
    LET r == hist[t].req
        f == hist[t].fetched
    IN /\ r.kind # "none" => f.attempt >= r.attempt
       /\ ReqPaired(t) =>
            /\ r.sha # NoSha => (f.kind = "file" /\ r.sha = f.sha)
            /\ r.kind = "PUT" => (r.sha = NoSha <=> f.kind = "notfound")
            /\ r.kind = "DELETE" => r.sha # NoSha

\* C9 amended: a mutation request carries the token fetched in the same
\* attempt; a PUT omits the token exactly when that fetch returned no file
\* revision, which is on NotFound and on a directory listing; a DELETE
\* always carries the fetched token; no token of an earlier attempt is sent.
C9_TokenFromSameAttempt ==
  \A t \in Tasks :
    LET r == hist[t].req
        f == hist[t].fetched
    IN /\ r.kind # "none" => f.attempt >= r.attempt
       /\ pc[t] = "mutate" => (ReqPaired(t) /\ r.attempt = attempt[t] /\ r.sha = sha[t])
       /\ ReqPaired(t) =>
            /\ r.sha # NoSha => (f.kind = "file" /\ r.sha = f.sha)
            /\ r.kind = "PUT" => (r.sha = NoSha <=> f.kind \in {"notfound", "dir"})
            /\ r.kind = "DELETE" => r.sha # NoSha

\* C9 witness: after a Conflict on attempt 1 the second attempt found the
\* file gone and has sent its PUT without a token.
C9_Witness ==
  \E t \in Tasks :
    /\ IsWrite(t) /\ pc[t] = "mutate" /\ attempt[t] = 2
    /\ hist[t].fetched.kind = "notfound" /\ hist[t].req.sha = NoSha
    /\ hist[t].req.attempt = 2

\* C10: with no other mutator of P and a store that answers from its state,
\* two createOrUpdateFile calls on the same path P meet no Conflict, raise
\* no error, wait only on a live holder of the guard, and once both have
\* ended both have returned and P holds the content of one of them.
C10_ConcurrentWritesBothSucceed ==
  /\ \A t \in Tasks :
       /\ pc[t] # "backoff"
       /\ outcome[t].kind # "raised"
       /\ pc[t] = "lockwait" => Holders(Dir(t)) # {} \/ ~EntryHeld(Dir(t))
  /\ \A t1, t2 \in Tasks :
       ( /\ t1 # t2 /\ IsWrite(t1) /\ IsWrite(t2)
         /\ call[t1].path = call[t2].path
         /\ \A t3 \in Tasks \ {t1, t2} : call[t3].path # call[t1].path
         /\ Done(t1) /\ Done(t2) )
         => /\ outcome[t1].kind = "returned" /\ outcome[t2].kind = "returned"
            /\ store[call[t1].path] # Absent
            /\ FromBase64(store[call[t1].path]) \in {call[t1].content, call[t2].content}

\* C10 witness: two writes of different contents to the same path have both
\* returned, the second one as an update of what the first one stored.
C10_Witness ==
  \E t1, t2 \in Tasks :
    /\ t1 # t2 /\ Done(t1) /\ Done(t2)
    /\ call[t1].path = call[t2].path /\ call[t1].content # call[t2].content
    /\ outcome[t1].kind = "returned" /\ outcome[t2].kind = "returned"
    /\ hist[t2].fetched.sha = ShaOf(Base64(call[t1].content))
    /\ FromBase64(store[call[t1].path]) = call[t2].content

IsRead(t) == call[t].op = "read"
IsList(t) == call[t].op = "list"

\* The remote store answered the last request of t with NotFound.
SawNotFound(t) == hist[t].fetched.kind = "notfound"

\* C11: a getFileContent call whose getContent was answered NotFound has
\* returned null and has not raised, on a path that was never written as
\* on a path that was deleted.
C11_ReadAbsentIsNull ==
  \A t \in Tasks :
    (IsRead(t) /\ Done(t) /\ SawNotFound(t))
      => (outcome[t] = Returned /\ result[t] = NullValue)

\* C11 witness: deleteFile has removed a stored file and a read of the same
\* path, answered NotFound, has returned null.
C11_Witness ==
  \E t1, t2 \in Tasks :
    /\ IsDelete(t1) /\ Done(t1) /\ hist[t1].nOk = 1
    /\ IsRead(t2) /\ Done(t2) /\ call[t2].path = call[t1].path
    /\ SawNotFound(t2) /\ result[t2] = NullValue
    /\ store[call[t1].path] = Absent

\* The names directly below d that lead to a stored file, in listing order.
ChildNames(d) ==
  SelectSeq(SegmentOrder,
            LAMBDA n : \E q \in Paths :
                         /\ store[q] # Absent
                         /\ Len(q) > Len(d)
                         /\ SubSeq(q, 1, Len(d) + 1) = Append(d, n))

\* The step in which the pending call of t ends.
Ends(t, at) == pc[t] = at /\ pc'[t] = "done"

\* C12: a listFilesInDirectory call that the remote store answers returns,
\* without raising, the names of the entries directly below the directory
\* at the time of the answer, sub-directories by their own name only and
\* nothing from below them; on NotFound that is the empty sequence.
C12_ListSingleLevel ==
  [][\A t \in Tasks :
       (Ends(t, "list") /\ hist'[t].lastStatus \in {StatusOk, StatusNotFound})
         => /\ outcome'[t] = Returned
            /\ result'[t] = ChildNames(call[t].path)
            /\ hist'[t].fetched.kind = "notfound" => result'[t] = <<>>]_vars

\* C12 witness: the listing of a record directory holding a file and a
\* sub-directory has returned the two names and not the name of the file
\* inside the sub-directory.
C12_Witness ==
  \E t \in Tasks :
    /\ IsList(t) /\ Done(t) /\ call[t].path = PathDir
    /\ store[PathInfo] # Absent
    /\ result[t] = <<"data", "meta">>

\* A deleteFile call made with the default retries value.
DefaultDelete(t) == IsDelete(t) /\ call[t].retries = DefaultRetries

\* C13: a deleteFile call whose revision fetch is answered NotFound ends at
\* once, returning normally, without having sent a DELETE in that attempt
\* and leaving the remote store as it is; so a second deleteFile(P) after a
\* first one returns successfully and P stays absent.
C13_DeleteIdempotent ==
  [][\A t \in Tasks :
       (IsDelete(t) /\ pc[t] = "fetch" /\ pc'[t] # "fetch"
          /\ hist'[t].fetched.kind = "notfound")
         => /\ pc'[t] = "done"
            /\ outcome'[t] = Returned
            /\ hist'[t].nReq = hist[t].nReq
            /\ hist'[t].req.attempt < attempt[t]
            /\ store' = store
            /\ store[call[t].path] = Absent]_vars

\* C13 witness: of two deleteFile calls on the same path the first has
\* removed the file and the second, finding nothing, has returned without
\* a DELETE; the path is absent.
C13_Witness ==
  \E t1, t2 \in Tasks :
    /\ t1 # t2 /\ IsDelete(t1) /\ IsDelete(t2) /\ call[t1].path = call[t2].path
    /\ Done(t1) /\ outcome[t1] = Returned /\ hist[t1].nOk = 1
    /\ Done(t2) /\ outcome[t2] = Returned /\ SawNotFound(t2) /\ hist[t2].nReq = 0
    /\ store[call[t1].path] = Absent

\* C14: a default deleteFile call makes at most 3 attempts, each one a
\* fresh revision fetch followed by at most one DELETE carrying the revision
\* just fetched; it waits 1000 ms after the Conflict of attempt 1 and
\* 2000 ms after that of attempt 2; a Conflict on attempt 3 ends the call
\* with an error and no further wait.
C14_DeleteRetryShape ==
  \A t \in Tasks :
    DefaultDelete(t) =>
      LET w == hist[t].waits IN
      /\ Started(t) => attempt[t] \in 1..3
      /\ hist[t].nFetch <= attempt[t] /\ hist[t].nReq <= hist[t].nFetch
      /\ pc[t] = "fetch" => hist[t].nFetch = attempt[t] - 1
      /\ pc[t] \in {"mutate", "backoff"} => hist[t].nFetch = attempt[t]
      /\ pc[t] = "mutate" =>
           /\ hist[t].req = [attempt |-> attempt[t], kind |-> "DELETE", sha |-> hist[t].fetched.sha]
           /\ hist[t].fetched.attempt = attempt[t] /\ hist[t].fetched.kind = "file"
           /\ hist[t].nReq = attempt[t]
      /\ Len(w) <= 2
      /\ \A k \in 1..Len(w) : w[k] = 1000 * Pow2(k - 1)
      /\ pc[t] = "backoff" =>
           (Len(w) = attempt[t] /\ attempt[t] < 3 /\ hist[t].lastStatus = StatusConflict)
      /\ pc[t] \in {"fetch", "mutate", "done"} => Len(w) = attempt[t] - 1
      /\ (Done(t) /\ hist[t].lastStatus = StatusConflict)
           => /\ attempt[t] = 3 /\ w = <<1000, 2000>> /\ hist[t].nReq = 3
              /\ outcome[t].kind = "raised" /\ outcome[t].error # NoError

\* C14 witness: the DELETE of each of the 3 attempts of a call was answered
\* Conflict and the call has raised after waits of 1000 and 2000 ms.
C14_Witness ==
  \E t \in Tasks :
    /\ DefaultDelete(t) /\ Done(t) /\ outcome[t].kind = "raised"
    /\ hist[t].lastStatus = StatusConflict /\ hist[t].nReq = 3
    /\ attempt[t] = 3 /\ hist[t].waits = <<1000, 2000>>

\* The last remote answer of t was a failure other than NotFound and
\* Conflict.
OtherFailure(t) ==
  hist[t].lastStatus \notin {StatusOk, StatusNotFound, StatusConflict}

\* The error value the remote store produced for the last request of t, as
\* a caller receives it when it is thrown on unchanged.
ProducedError(t) ==
  Rethrown(RemoteError(hist[t].lastStatus, outcome[t].error.message))

\* C15: a read, list, write or delete call whose last remote answer was a
\* failure other than NotFound and Conflict has raised, and what it raised
\* is the error value the remote store produced, not another error.
C15_FailurePropagatedUnchanged ==
  \A t \in Tasks :
    (Done(t) /\ call[t].op \in {"read", "list", "write", "delete"}
       /\ OtherFailure(t) /\ hist[t].nFetch > 0)
      => /\ outcome[t].kind = "raised"
         /\ outcome[t].error = ProducedError(t)

\* The directory a path lies in: the path without its last segment.
ParentOf(p) == SubSeq(p, 1, Len(p) - 1)

\* A createOrUpdateFile call of another task is inside its guarded section
\* for the directory of path p.
GuardedBy(t, p) ==
  \E t2 \in Tasks \ {t} : InGuard(t2) /\ ParentOf(call[t2].path) = ParentOf(p)

\* C16: a createOrUpdateFile call under D1 is made to wait only by a call
\* holding the guard of D1 itself, and a polling caller sets the entry
\* whatever the entries of the other directories are; writes under
\* different directories are inside their guarded sections together.
C16_OtherDirectoriesDoNotBlock ==
  [][\A t \in Tasks :
       /\ (pc[t] = "idle" /\ pc'[t] = "lockwait") => GuardedBy(t, call'[t].path)
       /\ (pc[t] = "idle" /\ pc'[t] = "locked") => ~GuardedBy(t, call'[t].path)
       /\ (pc[t] = "lockwait" /\ pc'[t] = "locked") => ~GuardedBy(t, call[t].path)]_vars

\* C16 witness: a write under r1 and a write under r2 are both inside their
\* guarded sections, each having sent a request, while a third call polls.
C16_Witness ==
  \E t1, t2, t3 \in Tasks :
    /\ InGuard(t1) /\ InGuard(t2) /\ Dir(t1) # Dir(t2)
    /\ pc[t1] = "mutate" /\ pc[t2] \in {"fetch", "mutate"}
    /\ EntryHeld(Dir(t1)) /\ EntryHeld(Dir(t2))
    /\ IsWrite(t3) /\ pc[t3] = "lockwait" /\ Dir(t3) = Dir(t1)

\* What is stored at p as a caller reads it: the text, or null for no file.
StoredValue(p) == IF store[p] = Absent THEN NullValue ELSE Text(store[p][2])

\* The createOrUpdateFile calls holding the guard while writing path p.
WritersOf(p) == {w \in Tasks : InGuard(w) /\ call[w].path = p}

\* C17: the steps of getFileContent and listFilesInDirectory leave the lock
\* table as it is and a read starts whatever the table holds; a read of P
\* answered while a write of P holds the guard returns, without raising,
\* what is stored at P at that moment, the content from before that write,
\* or the content that write stores (null standing for no file).
C17_ReadsIgnoreTheGuard ==
  [][\A t \in Tasks :
       /\ (call'[t].op \in {"read", "list"} /\ pc'[t] # pc[t])
            => directoryLocks' = directoryLocks
       /\ (pc[t] = "idle" /\ call'[t].op = "read") => pc'[t] = "read"
       /\ (pc[t] = "idle" /\ call'[t].op = "list") => pc'[t] = "list"
       /\ (Ends(t, "read") /\ hist'[t].lastStatus \in {StatusOk, StatusNotFound})
            => /\ outcome'[t] = Returned
               /\ \A w \in WritersOf(call[t].path) :
                    result'[t] \in {StoredValue(call[t].path), Text(call[w].content)}]_vars

IsListAll(t) == call[t].op = "listAll"

\* The place of a segment name in the order of a listing.
Rank(n) == CHOOSE i \in 1..Len(SegmentOrder) : SegmentOrder[i] = n

\* p comes before q in a depth-first walk that takes the entries of every
\* directory in listing order: at the first segment in which they differ,
\* that of p is listed first.
WalkedBefore(p, q) ==
  \E k \in 1..Len(p) :
    /\ k <= Len(q)
    /\ SubSeq(p, 1, k - 1) = SubSeq(q, 1, k - 1)
    /\ Rank(p[k]) < Rank(q[k])

StoredFiles == {p \in Paths : store[p] # Absent}

Collected(t) == {result[t][i] : i \in 1..Len(result[t])}

\* C18: on a tree that is not changed meanwhile, listAllFiles terminates and
\* returns the full paths of the stored files of the tree, all of them, each
\* once, in depth-first order, and no path of a directory.
C18_ListAllExact ==
  /\ [](\A t \in Tasks :
          IsListAll(t) =>
            /\ outcome[t].kind # "raised"
            /\ Collected(t) \subseteq StoredFiles
            /\ Len(result[t]) = Cardinality(Collected(t))
            /\ \A i, j \in 1..Len(result[t]) :
                 i < j => WalkedBefore(result[t][i], result[t][j])
            /\ Done(t) => (outcome[t] = Returned /\ Collected(t) = StoredFiles))
  /\ \A t \in Tasks : (pc[t] = "walk") ~> Done(t)

\* C18 witness: the listing of a tree with a file and a sub-directory in
\* one record directory and a file in another has returned its four files
\* in depth-first order.
C18_Witness ==
  \E t \in Tasks :
    /\ IsListAll(t) /\ Done(t)
    /\ result[t] = <<PathData, PathInfo, PathNotes, PathOther>>

\* result[t] as a prefix of what it is after the step.
Kept(t) ==
  /\ Len(result[t]) <= Len(result'[t])
  /\ SubSeq(result'[t], 1, Len(result[t])) = result[t]

\* C19: a NotFound answer for a directory at any depth does not fail the
\* recursive listing: the traversal goes on with the files collected so far,
\* and when it ends without another failure it returns, among them every
\* file still stored, those of the sibling directories listed after the
\* missing one included.
C19_ListAllToleratesAbsence ==
  [][\A t \in Tasks :
       /\ (pc[t] = "walk" /\ hist'[t].lastStatus \in {StatusOk, StatusNotFound})
            => (outcome'[t].kind # "raised" /\ Kept(t))
       /\ (Ends(t, "walk") /\ hist'[t].lastStatus \in {StatusOk, StatusNotFound})
            => /\ outcome'[t] = Returned
               /\ StoredFiles \subseteq {result'[t][i] : i \in 1..Len(result'[t])}]_vars

\* C19 witness: r1 was removed after the root was listed; its listing was
\* answered NotFound and the traversal has returned the file of r2, listed
\* after it.
C19_Witness ==
  \E t \in Tasks :
    /\ IsListAll(t) /\ Done(t) /\ outcome[t] = Returned
    /\ hist[t].nFetch = 3 /\ result[t] = <<PathOther>>
    /\ \A p \in Paths : IsProperPrefix(PathDir, p) => store[p] = Absent

\* The RicesService.remove call of t has ended.
RemoveEnded(t) == caller[t].op = "remove" /\ caller[t].phase \in {"returned", "raised"}

\* The remove call of t found the row of its record and held its token.
Admitted(t) == ~(outcome[t].kind = "raised" /\ outcome[t].error \in {RiceNotFound, InvalidToken})

\* The stored files below directory d, at any depth.
FilesUnder(d) == {p \in StoredFiles : IsProperPrefix(d, p)}

\* C20: the removal of a record directory ends by returning, and then no
\* file is left below the directory at any depth, so that a listing of it
\* is empty; in particular for a directory holding a file directly under
\* it and a file in a sub-directory.
C20_RemoveDeletesSubtree ==
  \A t \in Tasks :
    RemoveEnded(t) /\ Admitted(t) =>
      /\ caller[t].phase = "returned"
      /\ FilesUnder(caller[t].folder) = {}
      /\ ChildNames(caller[t].folder) = <<>>

\* C21: a removal run again after a run that failed part-way succeeds: when
\* a remove call of a record has raised after it had deleted some of the
\* record's files, a later remove call of the same record with the same
\* token returns, and no file of the record is left in the store.
C21_RemoveRerunSucceeds ==
  \A t, u \in Tasks :
    ( /\ t # u
      /\ RemoveEnded(u) /\ caller[u].phase = "raised" /\ caller[u].deleted > 0
      /\ RemoveEnded(t)
      /\ caller[t].folder = caller[u].folder /\ caller[t].token = caller[u].token )
    => /\ caller[t].phase = "returned"
       /\ FilesUnder(caller[t].folder) = {}

\* The environment lacks the token, the owner or the repository name.
ConfigMissing ==
  \E k \in ConfigKeys : configService[k] \in {Undefined, Str("")}

\* C22: onModuleInit raises when the token or an identifier is missing, and
\* then no request at all has been sent; it raises when the repository
\* lookup fails, with NotFound or anything else; it sends at most one
\* lookup; and it returns only with the default branch the lookup answered.
C22_InitFailsFast ==
  /\ moduleInit.lookups <= 1
  /\ ConfigMissing =>
       /\ moduleInit.lookups = 0
       /\ \A t \in Tasks : sent[t] = NoTarget
       /\ moduleInit.pc = "done" => moduleInit.outcome.kind = "raised"
  /\ (moduleInit.pc = "done" /\ moduleInit.error # NoRemoteError) =>
       moduleInit.outcome.kind = "raised"
  /\ (moduleInit.pc = "done" /\ moduleInit.outcome.kind = "returned") =>
       /\ moduleInit.lookups = 1
       /\ moduleInit.received # Undefined
       /\ defaultBranch = moduleInit.received[2]

\* Start-up has failed on a missing identifier with the token set.
C22_Witness ==
  /\ moduleInit.pc = "done" /\ moduleInit.outcome = Raised(IdsNotDefined)
  /\ ~Falsy(configService["GITHUB_TOKEN"])
  /\ Falsy(configService["GITHUB_REPO_NAME"]) /\ ~Falsy(configService["GITHUB_REPO_OWNER"])

\* The owner, the repository name and the branch start-up has set.
StartupContext ==
  [owner |-> OrEmpty(configService["GITHUB_REPO_OWNER"]),
   repo |-> OrEmpty(configService["GITHUB_REPO_NAME"]),
   ref |-> moduleInit.received[2]]

\* C23: once onModuleInit has returned, no step changes the owner, the
\* repository name or the default branch, and every request a read, a
\* listing, a write, a delete, a recursive listing or a clearing of the
\* repository sends carries the owner, the name and the default branch set
\* at start-up.
C23_ContextImmutable ==
  /\ [](Listening =>
          \A t \in Tasks : sent[t] # NoTarget => sent[t] = StartupContext)
  /\ [][Listening =>
          /\ repoOwner' = repoOwner /\ repoName' = repoName
          /\ defaultBranch' = defaultBranch]_vars

\* A clearing of the repository and a write have both ended in a
\* repository whose default branch is not the initial value of the field.
C23_Witness ==
  /\ Listening /\ defaultBranch = "trunk"
  /\ \E t, u \in Tasks :
       /\ caller[t].op = "clear" /\ caller[t].phase = "returned"
       /\ caller[t].deleted > 0 /\ sent[t].ref = "trunk"
       /\ call[u].op = "write" /\ pc[u] = "done" /\ hist[u].nOk = 1
       /\ sent[u].ref = "trunk"

\* The createOrUpdateFile calls that have returned after writing path p
\* and whose content is what the store holds at p.
LastWriters(p) ==
  {w \in Tasks : /\ IsWrite(w) /\ call[w].path = p
                 /\ pc[w] = "done" /\ outcome[w].kind = "returned" /\ hist[w].nOk = 1
                 /\ store[p] = Base64(call[w].content)}

\* C24: a getFileContent call of P answered after createOrUpdateFile(P, c)
\* has returned, nothing having changed P since, returns c: for every
\* content c, the empty one included, and for a create as for an update.
C24_WriteReadRoundTrip ==
  [][\A t \in Tasks :
       (IsRead(t) /\ Ends(t, "read") /\ outcome'[t].kind = "returned") =>
         \A w \in LastWriters(call[t].path) : result'[t] = Text(call[w].content)]_vars

\* The remove calls of the record of folder f that have returned.
Removers(f) ==
  {u \in Tasks : caller[u].op = "remove" /\ caller[u].folder = f
                   /\ caller[u].phase = "returned"}

\* C25: once a remove call has returned, which takes the record's own
\* token, the record has no row in the metadata table, and a getFileContent
\* call answered from then on for a file under the record's folder returns
\* null.
C25_RemovedRecordIsGone ==
  /\ [](\A u \in Tasks :
          (caller[u].op = "remove" /\ caller[u].phase = "returned") =>
            /\ caller[u].token = OwnToken
            /\ ~rices[caller[u].folder].found)
  /\ [][\A t \in Tasks :
          (IsRead(t) /\ Ends(t, "read") /\ Removers(ParentOf(call[t].path)) # {}) =>
            /\ outcome'[t].kind = "returned"
            /\ result'[t] = NullValue]_vars

\* A removal has deleted both files of its record and returned, and a read
\* of one of them has returned null.
C25_Witness ==
  \E u, t \in Tasks :
    /\ u \in Removers(PathDir) /\ caller[u].deleted = 2
    /\ IsRead(t) /\ call[t].path = PathData /\ pc[t] = "done" /\ result[t] = NullValue

\* The moderation request of t carried another secret than the configured
\* one.
WrongSecret(t) ==
  caller[t].op = "moderateRemove" /\ caller[t].secret # configService["MODERATION_SECRET"]

\* C26: a moderation delete request with another secret than the configured
\* one ends at once with UnauthorizedException, moderateRemove is not
\* called and no request is sent; the step that rejects it leaves the
\* metadata table and the stored files as they are, whether the record has
\* a row or not.
C26_WrongSecretRejected ==
  /\ [](\A t \in Tasks :
          WrongSecret(t) =>
            /\ caller[t].phase = "raised" /\ pc[t] = "done"
            /\ outcome[t] = Raised(InvalidSecret)
            /\ call[t] = NoCall /\ hist[t] = NoHist /\ sent[t] = NoTarget)
  /\ [][\A t \in Tasks :
          (pc[t] = "idle" /\ WrongSecret(t)') => (rices' = rices /\ store' = store)]_vars

\* A request with a wrong secret was rejected while the record has its row
\* and its files.
C26_Witness ==
  \E t \in Tasks :
    /\ WrongSecret(t) /\ caller[t].secret = Str("s2")
    /\ configService["MODERATION_SECRET"] = Str("s1")
    /\ rices[caller[t].folder].found
    /\ \A p \in FlatPaths : store[p] # Absent

\* At this step the revision fetch of t fails, or its PUT or DELETE is
\* answered with a failure, and the failure is not a Conflict.
FailsOtherwise(t) ==
  \/ /\ pc[t] = "fetch" /\ pc'[t] # "fetch"
     /\ hist'[t].fetched.kind = "error"
     /\ hist'[t].lastStatus # StatusConflict
  \/ /\ pc[t] = "mutate" /\ pc'[t] # "mutate"
     /\ hist'[t].nOk = hist[t].nOk
     /\ hist'[t].lastStatus # StatusConflict

\* C27: in createOrUpdateFile a failure other than Conflict, of the
\* revision fetch (NotFound not being a failure there) or of the PUT, ends
\* the call in the step that receives it, on whatever attempt: the call has
\* raised, no wait was added and no request sent, and an ended call sends
\* nothing more.
C27_OtherFailureEndsCall ==
  [][\A t \in Tasks :
       IsWrite(t) =>
         /\ FailsOtherwise(t) =>
              /\ pc'[t] = "done" /\ outcome'[t].kind = "raised"
              /\ attempt'[t] = attempt[t]
              /\ hist'[t].waits = hist[t].waits
              /\ hist'[t].nReq = hist[t].nReq
         /\ pc[t] = "done" => (pc'[t] = "done" /\ hist'[t] = hist[t])]_vars

\* A write has ended on its second attempt by a fetch that failed with a
\* server error, after one Conflict and one wait.
C27_Witness ==
  \E t \in Tasks :
    /\ IsWrite(t) /\ pc[t] = "done" /\ outcome[t].kind = "raised"
    /\ attempt[t] = 2 /\ hist[t].waits = <<BackoffTime(1)>>
    /\ hist[t].fetched.kind = "error" /\ hist[t].lastStatus = StatusServerError

\* C28: whatever the retries argument, zero and negative values included,
\* an ended createOrUpdateFile call has returned exactly when one PUT of it
\* succeeded, and has made no successful PUT when it raised; an ended
\* deleteFile call has returned only if its DELETE succeeded or the remote
\* store answered that the object is absent.
C28_ReturnMeansDone ==
  \A t \in Tasks :
    /\ (IsWrite(t) /\ pc[t] = "done") =>
         /\ outcome[t].kind = "returned" <=> hist[t].nOk = 1
         /\ outcome[t].kind = "raised" => hist[t].nOk = 0
    /\ (IsDelete(t) /\ pc[t] = "done" /\ outcome[t].kind = "returned") =>
         hist[t].nOk = 1 \/ hist[t].lastStatus = StatusNotFound

\* The deleteFile calls made on path p.
DeletersOf(p) == {t \in Tasks : IsDelete(t) /\ call[t].path = p}

\* C29: deleteFile calls racing on one stored path that nobody writes all
\* return, in whatever order their fetches and DELETE requests are answered,
\* the losers on a NotFound answer, at once or after a Conflict and a new
\* fetch, within the 3 attempts; and once they have all ended the path is
\* absent.
C29_ConcurrentDeletesSucceed ==
  \A p \in RacePaths :
    /\ \A t \in DeletersOf(p) :
         /\ attempt[t] <= DefaultRetries
         /\ pc[t] = "done" =>
              /\ outcome[t].kind = "returned"
              /\ hist[t].nOk = 1 \/ hist[t].lastStatus = StatusNotFound
    /\ (DeletersOf(p) # {} /\ \A t \in DeletersOf(p) : pc[t] = "done") =>
         store[p] = Absent

\* Two deleteFile calls have both fetched the revision and sent a DELETE;
\* one has deleted the file, the other was answered Conflict, fetched again
\* and returned.
C29_Witness ==
  \E t, u \in Tasks :
    /\ t # u /\ {t, u} \subseteq DeletersOf(PathData)
    /\ pc[t] = "done" /\ hist[t].nOk = 1
    /\ pc[u] = "done" /\ hist[u].nOk = 0 /\ hist[u].nReq = 1
    /\ hist[u].waits = <<BackoffTime(1)>> /\ outcome[u].kind = "returned"

\* The directory the object of a path lies in, however the path is spelled.
DirectoryOf(p) == Front(Resolve(p))

\* C30: the key of the guard is the normalized parent directory of the path.
\* Writes whose paths lie in the same directory, however the paths are
\* spelled, use the same entry of the lock table, and no two of them are
\* inside the guarded section together.
C30_KeyIsNormalizedParent ==
  \A t1, t2 \in Tasks :
    ( /\ t1 # t2 /\ IsWrite(t1) /\ IsWrite(t2)
      /\ DirectoryOf(call[t1].path) = DirectoryOf(call[t2].path) )
    => /\ Dir(t1) = Dir(t2)
       /\ ~(InGuard(t1) /\ InGuard(t2))

\* The writers waiting for the guard of directory d.
Waiters(d) == {t \in Tasks : IsWrite(t) /\ pc[t] = "lockwait" /\ Dir(t) = d}

\* C31: the guard keeps no arrival order.  The lock table holds a flag per
\* directory and nothing about who waits; whenever the entry of a directory
\* is free, each of the writers waiting for it, the one that came last as
\* well as the one that came first, can take it with its next poll, and the
\* one that does leaves the others waiting.
C31_NoArrivalOrder ==
  /\ [](\A d \in DOMAIN directoryLocks : directoryLocks[d] \in BOOLEAN)
  /\ [](\A t \in Tasks :
          (pc[t] = "lockwait" /\ ~EntryHeld(Dir(t))) => ENABLED LockPoll(t))
  /\ [][\A t \in Tasks :
          (pc[t] = "lockwait" /\ pc'[t] = "locked") =>
            /\ ~EntryHeld(Dir(t))
            /\ Waiters(Dir(t))' = Waiters(Dir(t)) \ {t}]_vars

\* Writer 3 arrived after writer 2, both while writer 1 held the guard;
\* writer 1 has ended, and writer 3 is inside the guarded section while
\* writer 2 still waits.
C31_Witness ==
  /\ NumTasks >= 3
  /\ Done(1) /\ pc[2] = "lockwait" /\ InGuard(3)
  /\ Dir(1) = Dir(2) /\ Dir(2) = Dir(3)

\* Every waiting writer gets the guard.  This does not hold under StreamSpec:
\* a writer whose polls always find the entry taken again waits for ever
\* (the second half of C31).
WaiterAcquires == \A t \in Tasks : (pc[t] = "lockwait") ~> (pc[t] = "locked")

\* Between the first revision fetch and the end of the call: an attempt is
\* under way or the backoff wait of one is.
InAttempts(t) == IsWrite(t) /\ pc[t] \in {"fetch", "mutate", "backoff"}

\* C32: a createOrUpdateFile call holds the guard of its directory from its
\* first revision fetch to its outcome, the backoff waits included: the
\* entry is held in every state in between, every other write to the
\* directory is waiting for the guard or has ended, and no step taken while
\* the call waits in backoff sends a request of another write to the
\* directory.
C32_BackoffHoldsGuard ==
  /\ [](\A t \in Tasks :
          InAttempts(t) =>
            /\ EntryHeld(Dir(t))
            /\ \A u \in Tasks \ {t} :
                 (IsWrite(u) /\ Dir(u) = Dir(t)) => pc[u] \in {"lockwait", "done"})
  /\ [][\A t \in Tasks :
          (InAttempts(t) /\ pc[t] = "backoff") =>
            \A u \in Tasks \ {t} :
              (IsWrite(u)' /\ Dir(u)' = Dir(t)) =>
                /\ hist'[u].nFetch = hist[u].nFetch
                /\ hist'[u].nReq = hist[u].nReq
                /\ pc'[u] \notin {"locked", "fetch", "mutate"}]_vars

\* A write waits out the backoff of its first Conflict while another write
\* to the same directory waits for the guard.
C32_Witness ==
  \E t, u \in Tasks :
    /\ t # u /\ IsWrite(t) /\ pc[t] = "backoff" /\ attempt[t] = 1
    /\ hist[t].lastStatus = StatusConflict
    /\ IsWrite(u) /\ Dir(u) = Dir(t) /\ pc[u] = "lockwait"
    /\ EntryHeld(Dir(t))

\* C33: with createOrUpdateFile calls of this process as the only mutators
\* of the store, whatever their number and their paths, no PUT is answered
\* Conflict: no call waits in backoff, and every call that has ended has
\* returned from attempt 1.
C33_NoConflictAmongWriters ==
  \A t \in Tasks :
    IsWrite(t) =>
      /\ hist[t].lastStatus # StatusConflict
      /\ hist[t].waits = <<>>
      /\ Done(t) => (outcome[t].kind = "returned" /\ attempt[t] = 1)

\* The directories that have an entry in the lock table.
Entered == DOMAIN directoryLocks

\* C34: the set of directories with an entry in the lock table never
\* shrinks.  An entry is added only by a write that acquires the guard of a
\* directory for the first time, a write that ends leaves the entry of its
\* directory in the table, marked not held, and a write whose directory has
\* no entry acquires the guard at once.
C34_LockTableNeverShrinks ==
  [][/\ Entered \subseteq Entered'
     /\ \A d \in Entered' \ Entered :
          /\ directoryLocks'[d] = TRUE
          /\ \E t \in Tasks : pc[t] = "idle" /\ pc'[t] = "locked" /\ IsWrite(t)' /\ Dir(t)' = d
     /\ \A t \in Tasks :
          /\ (InGuard(t) /\ Done(t)') =>
               (Dir(t) \in Entered' /\ directoryLocks'[Dir(t)] = FALSE)
          /\ (pc[t] = "idle" /\ IsWrite(t)' /\ Dir(t)' \notin Entered) =>
               pc'[t] = "locked"]_vars

\* A write has ended and its directory keeps an entry, not held, while the
\* entry of another directory is held.
C34_Witness ==
  \E t, u \in Tasks :
    /\ IsWrite(t) /\ Done(t) /\ InGuard(u) /\ Dir(t) # Dir(u)
    /\ {Dir(t), Dir(u)} \subseteq Entered
    /\ directoryLocks[Dir(t)] = FALSE /\ directoryLocks[Dir(u)] = TRUE

IsClear(t) == caller[t].op = "clear"

\* A getContent of the recursive listing has failed with something else
\* than NotFound.
ListingFailed(t) ==
  /\ call[t].op = "listAll"
  /\ hist[t].fetched.kind = "error" /\ hist[t].lastStatus # StatusNotFound

\* C35: a failure other than NotFound of a getContent of the recursive
\* listing, at whatever depth, ends the traversal with an error;
\* clearRepository then raises without having sent a DELETE, and no later
\* step of that run changes the store.
C35_ListingFailureAbortsClear ==
  /\ [](\A t \in Tasks :
          (IsClear(t) /\ ListingFailed(t)) =>
            /\ Done(t) /\ outcome[t].kind = "raised"
            /\ caller[t].phase \in {"listAll", "raised"}
            /\ DeletedSoFar(t) = 0 /\ hist[t].nReq = 0)
  /\ [][(\E t \in Tasks : IsClear(t) /\ ListingFailed(t)) => store' = store]_vars

\* The listing of the sub-directory r1/meta failed after files of the
\* levels above had been collected, and clearRepository has raised with
\* every file still stored.
C35_Witness ==
  \E t \in Tasks :
    /\ IsClear(t) /\ ListingFailed(t) /\ caller[t].phase = "raised"
    /\ outcome[t].error.text = "Error cleaning the repository"
    /\ hist[t].nFetch = 3 /\ Len(result[t]) >= 2
    /\ \A p \in ClearPaths : store[p] # Absent

\* A deleteFile call that clearRepository makes.
ClearDeletes(t) == IsClear(t) /\ call[t].op = "delete"

\* C36: clearRepository calls deleteFile neither for the root .gitignore
\* nor for a file named .gitkeep, and no step of it changes such a file or
\* brings a deleted file back.  When it has returned, on a store nobody else
\* changes, no file but those is stored.  When a deleteFile fails it raises,
\* and the files it deleted before stay deleted.
C36_ClearSparesEssentialFiles ==
  /\ [](\A t \in Tasks :
          /\ ClearDeletes(t) => ~(call[t].path = PathIgnore \/ call[t].path[Len(call[t].path)] = ".gitkeep")
          /\ (IsClear(t) /\ caller[t].phase = "returned") =>
               \A p \in Paths : store[p] # Absent => p \in {PathIgnore, PathKeep}
          /\ (ClearDeletes(t) /\ Done(t) /\ outcome[t].kind = "raised") =>
               caller[t].phase \in {"files", "raised"}
          /\ (IsClear(t) /\ caller[t].phase = "raised") => outcome[t].kind = "raised")
  /\ [][/\ \A p \in {PathIgnore, PathKeep} : store'[p] = store[p]
        /\ \A p \in Paths : store[p] = Absent => store'[p] = Absent
        /\ \A t \in Tasks :
             (ClearDeletes(t) /\ Done(t) /\ outcome[t].kind = "raised") =>
               (caller'[t].phase = "raised" /\ store' = store)]_vars

\* clearRepository has returned after three deletions: the root .gitignore
\* and r1/.gitkeep are all that is stored.
C36_Witness ==
  \E t \in Tasks :
    /\ IsClear(t) /\ caller[t].phase = "returned" /\ caller[t].deleted = 3
    /\ \A p \in Paths : store[p] # Absent <=> p \in {PathIgnore, PathKeep}

\* ------------------------------------------------------------------- C37
\* An update or remove call that has ended.
GuardedEnded(t) ==
  caller[t].op \in {"update", "remove"} /\ caller[t].phase \in {"returned", "raised"}

\* The call of task t has sent no request to the file store.
NothingSent(t) == hist[t].nFetch = 0 /\ hist[t].nReq = 0 /\ call[t] = NoCall

\* C37: an update or remove call with a slug that has no record has raised
\* NotFound, one with another token than the record's has raised
\* Unauthorized; neither has sent a request to the file store, and the
\* metadata store changes only in a step of a call that holds the token of
\* an existing record.  (No row is deleted or inserted under UpdateSpec, so
\* a row found or missing at the end was so at the call.)
C37_WrongTokenOrSlugRaises ==
  /\ [](\A t \in Tasks :
          GuardedEnded(t) =>
            LET rice == rices[caller[t].folder]
            IN /\ ~rice.found =>
                    /\ outcome[t] = Raised(RiceNotFound)
                    /\ NothingSent(t)
               /\ (rice.found /\ rice.token # caller[t].token) =>
                    /\ outcome[t].kind = "raised"
                    /\ outcome[t].error.status = StatusUnauthorized
                    /\ NothingSent(t))
  /\ [][rices' # rices =>
          \E t \in Tasks :
            /\ caller[t].phase # caller'[t].phase
            /\ rices[caller[t].folder].found
            /\ rices[caller[t].folder].token = caller[t].token]_vars

\* What holds of the code: such a call raises, NotFound or Unauthorized if
\* its headers and its content pass the validation and BadRequest if not,
\* and in each case nothing is sent and no row changes.
C37_WrongTokenOrSlugChangesNothing ==
  /\ [](\A t \in Tasks :
          GuardedEnded(t) =>
            LET rice == rices[caller[t].folder]
            IN (~rice.found \/ rice.token # caller[t].token) =>
                 /\ outcome[t].kind = "raised"
                 /\ outcome[t].error.status \in
                      {StatusBadRequest, StatusNotFound, StatusUnauthorized}
                 /\ NothingSent(t))
  /\ [][rices' # rices =>
          \E t \in Tasks :
            /\ caller[t].phase # caller'[t].phase
            /\ rices[caller[t].folder].found
            /\ rices[caller[t].folder].token = caller[t].token]_vars

\* An update with another token than the record's, sent as the controller
\* passes it, has ended with BadRequest.
C37_Reached ==
  \E t \in Tasks :
    /\ caller[t].op = "update" /\ caller[t].phase = "raised"
    /\ rices[caller[t].folder].found
    /\ rices[caller[t].folder].token # caller[t].token
    /\ outcome[t] = Raised(MissingHeaders)

\* An update with the record's token has changed the row and written the file.
C37_Updated ==
  \E t \in Tasks :
    /\ caller[t].op = "update" /\ caller[t].phase = "returned"
    /\ rices[caller[t].folder].version = "1.0.1"
    /\ store[PathData] = Base64(Base64(RiceJson))

\* ------------------------------------------------------------------- C38
\* The name of task t's create is the name of a stored row, another one than
\* the row the create has inserted itself.
NameUsed(t) == SlugsOfName(caller[t].name) \ {caller[t].folder} # {}

\* C38: the metadata store never holds two rows with one name; a create
\* whose name a stored row has when its check is answered raises Conflict,
\* and no create inserts a row or calls the file store while a stored row
\* has its name.
C38_OneRecordPerName ==
  /\ [](\A f, g \in RemoveFolders :
          (rices[f].found /\ rices[g].found /\ rices[f].name = rices[g].name) => f = g)
  /\ [][\A t \in Tasks :
          (caller[t].op = "create" /\ caller[t].phase # caller'[t].phase /\ NameUsed(t)) =>
            /\ caller'[t].phase = "raised"
            /\ outcome'[t].kind = "raised"
            /\ outcome'[t].error.status = StatusConflict
            /\ rices' = rices
            /\ call'[t] = NoCall]_vars

\* What holds of the code: a create whose check is answered while exactly
\* one stored row has its name raises Conflict, and has inserted nothing
\* and called the file store with nothing.
C38_CheckedNameConflicts ==
  [][\A t \in Tasks :
       (caller[t].op = "create" /\ caller[t].phase = "getByName"
          /\ caller'[t].phase # "getByName" /\ NameUsed(t)) =>
         /\ caller'[t].phase = "raised"
         /\ outcome'[t].error.status = StatusConflict
         /\ rices' = rices
         /\ call'[t] = NoCall]_vars

\* Two creates with one name have both returned, and two rows have the name.
C38_Reached ==
  \E t, u \in Tasks :
    /\ t # u
    /\ caller[t].op = "create" /\ caller[u].op = "create"
    /\ caller[t].phase = "returned" /\ caller[u].phase = "returned"
    /\ caller[t].name = caller[u].name
    /\ Cardinality(SlugsOfName(caller[t].name)) = 2

====
